---- MODULE Spec2Model ----
(***************************************************************************)
(* ParticleFlowAnimation: the audio analysis hook (useAudioAnalyzer.ts),   *)
(* the canvas visualiser (App.tsx) and the GPU particle simulator          *)
(* (Particles.tsx), as state machines.                                     *)
(*                                                                         *)
(* JavaScript and GLSL numbers are modelled as exact rationals <<n, d>>    *)
(* in lowest terms with d > 0: the properties below are about ranges and   *)
(* exact algebraic results, which floating-point rounding only perturbs    *)
(* within a tolerance.                                                     *)
(***************************************************************************)
EXTENDS Integers, Sequences, FiniteSets, TLC

(***************************************************************************)
(* Rational arithmetic                                                     *)
(***************************************************************************)
Abs(n) == IF n < 0 THEN -n ELSE n

RECURSIVE GCD(_, _)
GCD(a, b) == IF b = 0 THEN a ELSE GCD(b, a % b)

\* n/d in lowest terms, d # 0
Q(n, d) ==
    LET s == IF d < 0 THEN -1 ELSE 1
        g == GCD(Abs(n), Abs(d))
    IN  IF n = 0 THEN <<0, 1>> ELSE <<(s * n) \div g, (s * d) \div g>>

R(n) == <<n, 1>>
Zero == <<0, 1>>
One == <<1, 1>>

RAdd(a, b) ==
    LET g == GCD(a[2], b[2])
    IN  Q(a[1] * (b[2] \div g) + b[1] * (a[2] \div g), (a[2] \div g) * b[2])

RNeg(a) == <<-a[1], a[2]>>
RSub(a, b) == RAdd(a, RNeg(b))

RMul(a, b) ==
    LET g1 == GCD(Abs(a[1]), b[2])
        g2 == GCD(Abs(b[1]), a[2])
    IN  IF a[1] = 0 \/ b[1] = 0 THEN Zero
        ELSE <<(a[1] \div g1) * (b[1] \div g2), (a[2] \div g2) * (b[2] \div g1)>>

\* a / b, b # 0
RDiv(a, b) == RMul(a, Q(b[2], b[1]))

RLt(a, b) == a[1] * b[2] < b[1] * a[2]
RLe(a, b) == a[1] * b[2] <= b[1] * a[2]
RMin(a, b) == IF RLe(a, b) THEN a ELSE b
RMax(a, b) == IF RLe(a, b) THEN b ELSE a
InUnit(a) == a[1] >= 0 /\ a[1] <= a[2]

\* Math.floor of a rational (TLA+ \div rounds towards minus infinity)
Floor(a) == a[1] \div a[2]

(***************************************************************************)
(* useAudioAnalyzer.ts                                                     *)
(***************************************************************************)

\* lerp with the roles of its ends exchanged
lerpFromEnd(start, end, factor) == RAdd(end, RMul(RSub(start, end), factor))

\* function lerp(start, end, factor)
lerp(start, end, factor) == RAdd(start, RMul(RSub(end, start), factor))

\* function frequencyToBin(frequency, sampleRate, fftSize)
frequencyToBin(frequency, sampleRate, fftSize) ==
    Floor(RMul(Q(frequency, sampleRate), R(fftSize)))

Max(a, b) == IF a >= b THEN a ELSE b
Min(a, b) == IF a <= b THEN a ELSE b

(***************************************************************************)
(* Bounds of the model                                                     *)
(***************************************************************************)
\* analysis ticks (analyze callbacks that run) explored per behaviour
MaxTicks == 2
\* prop changes (isPlaying / analyserNode / audioContext) per behaviour
MaxRenders == 3

VARIABLES
    \* ---- useAudioAnalyzer ----
    isPlaying,          \* prop: isPlaying
    analyserNode,       \* prop: analyserNode # null
    audioContext,       \* prop: audioContext # null
    options,            \* fftSize, sampleRate, lerpFactor, transientThreshold, transientDecay
    audioData,          \* useState: the published AudioAnalyzerData
    smoothedRef,        \* smoothedRef.current
    previousLevelRef,   \* previousLevelRef.current
    transientValueRef,  \* transientValueRef.current
    frameIdRef,         \* frameIdRef.current, 0 for null
    effectDeps,         \* the props the analysis effect last ran with, <<>> before mount
    effectCleanup,      \* the last effect run returned a cleanup function
    rafQueue,           \* pending requestAnimationFrame(analyze) callbacks
    rafNext,            \* the id the next requestAnimationFrame returns
    hookTicks,          \* analyze callbacks run so far
    hookRenders,        \* prop changes so far
    hookEvent,          \* the operation that ran last
    lastTick            \* locals of the last analyze run

hookVars == <<isPlaying, analyserNode, audioContext, options, audioData, smoothedRef,
              previousLevelRef, transientValueRef, frameIdRef, effectDeps, effectCleanup,
              rafQueue, rafNext, hookTicks, hookRenders, hookEvent, lastTick>>

VARIABLES
    hookBands,      \* the band energies analyze computes for a frame
    appBands        \* the frequencyData animate computes for a frame

levelVars == <<hookBands, appBands>>

\* App.tsx
VARIABLES
    particleCount,      \* state: the particle slider
    colorScheme,        \* state: the colour scheme
    appIsPlaying,       \* state: isPlaying
    isPlayingRef,       \* isPlayingRef.current
    analyserRef,        \* analyserRef.current is set
    particlesRef,       \* particlesRef.current
    animationRef,       \* animationRef.current, 0 for null
    appRafQueue,        \* pending animate callbacks: [id, epoch]
    appRafNext,         \* the id the next requestAnimationFrame returns
    appEffectDeps,      \* the dependencies of the last run of the main effect
    appEpoch,           \* runs of the main effect so far
    closures,           \* the locals of the effect runs that still have a pending callback
    now,                \* Date.now()
    appFrames,          \* animate callbacks run so far
    appRenders,         \* state changes so far
    appEvent,           \* the operation that ran last
    lastFrame,          \* what the last animate call did
    beatLog,            \* when beatIntensity was last set to 1, and how long after the time before
    audioSourceRef,     \* audioSourceRef.current is set and feeds the analyser
    analyserData        \* the magnitude the smoothed spectrum of the analyser holds

appVars == <<particleCount, colorScheme, appIsPlaying, isPlayingRef, analyserRef, particlesRef,
             animationRef, appRafQueue, appRafNext, appEffectDeps, appEpoch, closures, now,
             appFrames, appRenders, appEvent, lastFrame, beatLog, audioSourceRef,
             analyserData>>

sourceVars == <<audioSourceRef, analyserData>>

\* Particles.tsx: the simulation
VARIABLES
    gpuSize,                \* size of useThree
    gpuAudio,               \* the audioData prop
    gpuControls,            \* the leva controls
    gpuScheme,              \* the colorScheme prop
    computeRuns,            \* the GPU accepted the simulation programs and runs them
    texel,                  \* the texel that is followed
    curlField,              \* what curlNoise returns for the particle
    texturePosition,        \* the texel of the position texture: x, y, hue, life
    textureVelocity,        \* the texel of the velocity texture
    timeRef,                \* timeRef.current
    readTextureFrameRef,    \* readTextureFrameRef.current
    geometry,               \* the attributes of the particle in the render geometry
    gpuTicks,               \* useFrame calls so far
    lastShade               \* locals of the last run of the position shader

gpuVars == <<gpuSize, gpuAudio, gpuControls, gpuScheme, computeRuns, texel, curlField,
             texturePosition, textureVelocity, timeRef, readTextureFrameRef, geometry,
             gpuTicks, lastShade>>

\* Particles.tsx: the colour mapping as a function of its inputs
VARIABLES
    colourIn,       \* scheme, hue, life, time, audio and the value of Math.sin
    colourOut       \* what the readback loop writes for them

colourVars == <<colourIn, colourOut>>

\* the bin ranges of both analysers as a function of their inputs
VARIABLES
    rangeIn,            \* fftSize and sampleRate the ranges are computed for
    rangeOut            \* the bins each band visits and the count it divides by

rangeVars == <<rangeIn, rangeOut>>

\* the tables of one PerlinNoise object of App.tsx
VARIABLES
    noiseParticles,     \* particleCount of the effect run that created the object
    memorySize,         \* Object.keys(noise.memory).length
    gradientsSize,      \* Object.keys(noise.gradients).length
    noiseFrameCount     \* frameCount of the effect run

noiseVars == <<noiseParticles, memorySize, gradientsSize, noiseFrameCount>>

\* one texel of the position texture followed by the class of its floating-point values
VARIABLES
    fpAudio,            \* class of the audioLevel uniform of the last frame
    fpPos,              \* class of pos.xy in the position texture
    fpHue,              \* class of pos.z
    fpLife,             \* steps of 0.0005 left until life reaches 0
    fpTicks,            \* compute passes so far
    fpLast              \* what the last pass did

fpVars == <<fpAudio, fpPos, fpHue, fpLife, fpTicks, fpLast>>

\* the sizing of the particle population for a given particleCount
VARIABLES
    szCount,            \* particleCount handed to the simulator
    szArray,            \* particlesRef.current.length
    szLoop,             \* where "Initialize or adjust particles" of the App effect is
    szAlloc             \* the buffer allocation of the Particles useMemo

sizeVars == <<szCount, szArray, szLoop, szAlloc>>

\* the transient detector of analyze followed over one triggering frame and silence
VARIABLES
    scOptions,          \* the options of the hook
    scFirst,            \* the frame of the first tick
    scFrames,           \* ticks analysed so far
    scPreviousLevel,    \* previousLevelRef.current
    scLow, scHigh,      \* transientValueRef.current lies between these, in 1 / FixedScale
    scTriggers,         \* how many ticks took the trigger branch
    scLast              \* the bounds before the last tick

scenarioVars == <<scOptions, scFirst, scFrames, scPreviousLevel, scLow, scHigh, scTriggers,
                  scLast>>

\* the PerlinNoise object of one effect run with the contents of its tables, the state of
\* Math.random, and what the updates of the last frame read from the field
VARIABLES perlin, mathRandom, fieldFrameCount, firstValue, lastUpdates

fieldVars == <<perlin, mathRandom, fieldFrameCount, firstValue, lastUpdates>>

vars == <<hookVars, levelVars, appVars, gpuVars, colourVars, rangeVars, noiseVars, fpVars, sizeVars, scenarioVars, fieldVars>>

\* what the operations of one machine leave alone
notHook == <<levelVars, appVars, gpuVars, colourVars, rangeVars, noiseVars, fpVars, sizeVars, scenarioVars, fieldVars>>
notLevels == <<hookVars, appVars, gpuVars, colourVars, rangeVars, noiseVars, fpVars, sizeVars, scenarioVars, fieldVars>>
notApp == <<hookVars, levelVars, gpuVars, colourVars, rangeVars, noiseVars, fpVars, sizeVars, scenarioVars, fieldVars>>
notGpu == <<hookVars, levelVars, appVars, colourVars, rangeVars, noiseVars, fpVars, sizeVars, scenarioVars, fieldVars>>
notColour == <<hookVars, levelVars, appVars, gpuVars, rangeVars, noiseVars, fpVars, sizeVars, scenarioVars, fieldVars>>
notRanges == <<hookVars, levelVars, appVars, gpuVars, colourVars, noiseVars, fpVars, sizeVars, scenarioVars, fieldVars>>
notNoise == <<hookVars, levelVars, appVars, gpuVars, colourVars, rangeVars, fpVars, sizeVars, scenarioVars, fieldVars>>
notFp == <<hookVars, levelVars, appVars, gpuVars, colourVars, rangeVars, noiseVars, sizeVars, scenarioVars, fieldVars>>
notSize == <<hookVars, levelVars, appVars, gpuVars, colourVars, rangeVars, noiseVars, fpVars, scenarioVars, fieldVars>>
notScenario == <<hookVars, levelVars, appVars, gpuVars, colourVars, rangeVars, noiseVars, fpVars, sizeVars, fieldVars>>
notField == <<hookVars, levelVars, appVars, gpuVars, colourVars, rangeVars, noiseVars, fpVars, sizeVars, scenarioVars>>

\* the options and sample rates explored: the default factors on a small FFT, and
\* lerpFactor and transientDecay at the upper end of [0,1]
AnalyzerOptions ==
    { [fftSize |-> 32, sampleRate |-> 44100, lerpFactor |-> <<3, 20>>,
       transientThreshold |-> <<3, 10>>, transientDecay |-> <<23, 25>>],
      [fftSize |-> 64, sampleRate |-> 8000, lerpFactor |-> <<1, 1>>,
       transientThreshold |-> <<3, 10>>, transientDecay |-> <<23, 25>>],
      [fftSize |-> 32, sampleRate |-> 48000, lerpFactor |-> <<3, 20>>,
       transientThreshold |-> <<1, 2>>, transientDecay |-> <<1, 1>>] }

\* byte magnitudes getByteFrequencyData may write
ByteLevels == {0, 255}

ZeroData == [level |-> Zero, bass |-> Zero, mid |-> Zero, treble |-> Zero, transient |-> Zero]

\* analyserNode.frequencyBinCount: half the fftSize the first effect sets
frequencyBinCount(opt) == opt.fftSize \div 2

\* the bin ranges of the three bands, computed once per effect run and captured by analyze
BinRanges(opt) ==
    LET binCount == frequencyBinCount(opt)
        bassStart == Max(0, Min(frequencyToBin(20, opt.sampleRate, opt.fftSize), binCount - 1))
        bassEnd == Max(bassStart + 1,
                       Min(frequencyToBin(200, opt.sampleRate, opt.fftSize), binCount - 1))
        midEnd == Max(bassEnd + 1,
                      Min(frequencyToBin(2000, opt.sampleRate, opt.fftSize), binCount - 1))
    IN  [binCount |-> binCount,
         bassStartBin |-> bassStart, bassEndBin |-> bassEnd,
         midStartBin |-> bassEnd, midEndBin |-> midEnd,
         trebleStartBin |-> midEnd, trebleEndBin |-> binCount - 1]

\* sum of dataArray[i] for lo <= i < hi (the for loops of analyze)
SumBins(dataArray, lo, hi) ==
    LET S[i \in lo .. Max(lo, hi)] == IF i = lo THEN 0 ELSE S[i - 1] + dataArray[i - 1]
    IN  S[Max(lo, hi)]

\* frames getByteFrequencyData delivers: one magnitude per band region
Frames(bins) ==
    { [i \in 0 .. bins.binCount - 1 |->
          IF i < bins.bassEndBin THEN a ELSE IF i < bins.midEndBin THEN b ELSE c] :
      a \in ByteLevels, b \in ByteLevels, c \in ByteLevels }

\* raw band energies of one frame (analyze, "Calculate raw frequency band energies")
bassEnergy(dataArray, bins) ==
    LET bassBinCount == Max(1, bins.bassEndBin - bins.bassStartBin)
    IN  RDiv(Q(SumBins(dataArray, bins.bassStartBin, Min(bins.bassEndBin, bins.binCount)), 255),
             R(bassBinCount))

midEnergy(dataArray, bins) ==
    LET midBinCount == Max(1, bins.midEndBin - bins.midStartBin)
    IN  RDiv(Q(SumBins(dataArray, bins.midStartBin, Min(bins.midEndBin, bins.binCount)), 255),
             R(midBinCount))

\* the treble loop runs to trebleEndBin inclusive
trebleEnergy(dataArray, bins) ==
    LET trebleBinCount == Max(1, bins.trebleEndBin - bins.trebleStartBin)
    IN  RDiv(Q(SumBins(dataArray, bins.trebleStartBin,
                       Min(bins.trebleEndBin + 1, bins.binCount)), 255),
             R(trebleBinCount))

\* an overall level whose weights sum to more than 1
overallLevelHeavyTreble(bass, mid, treble) ==
    RAdd(RAdd(RMul(bass, <<3, 10>>), RMul(mid, <<4, 10>>)), RMul(treble, <<4, 10>>))

\* Overall level (weighted average)
overallLevel(bass, mid, treble) ==
    RAdd(RAdd(RMul(bass, <<3, 10>>), RMul(mid, <<4, 10>>)), RMul(treble, <<3, 10>>))

\* levelDelta > 0 ? levelDelta : 0
levelIncrease(overall, previousLevel) ==
    LET levelDelta == RSub(overall, previousLevel)
    IN  IF RLt(Zero, levelDelta) THEN levelDelta ELSE Zero

\* the condition of the transient trigger
transientTrigger(increase, overall, opt) ==
    RLt(opt.transientThreshold, increase) /\ RLt(<<1, 10>>, overall)

\* a trigger that adds to the current value instead of replacing it
transientValueAccumulating(current, increase, overall, opt) ==
    RMul(IF transientTrigger(increase, overall, opt)
         THEN RMin(One, RAdd(current, RMul(increase, R(2))))
         ELSE current,
         opt.transientDecay)

\* a decay applied before the trigger, so that a fresh pulse is not decayed
transientValueDecayFirst(current, increase, overall, opt) ==
    IF transientTrigger(increase, overall, opt)
    THEN RMin(One, RMul(increase, R(2)))
    ELSE RMul(current, opt.transientDecay)

\* transientValueRef.current after trigger and decay
transientValue(current, increase, overall, opt) ==
    RMul(IF transientTrigger(increase, overall, opt)
         THEN RMin(One, RMul(increase, R(2)))
         ELSE current,
         opt.transientDecay)

\* "Apply lerp smoothing"
smoothed(prev, overall, bass, mid, treble, transient, opt) ==
    [level     |-> lerp(prev.level, overall, opt.lerpFactor),
     bass      |-> lerp(prev.bass, bass, opt.lerpFactor),
     mid       |-> lerp(prev.mid, mid, opt.lerpFactor),
     treble    |-> lerp(prev.treble, treble, opt.lerpFactor),
     transient |-> lerp(prev.transient, transient, <<3, 10>>)]

\* lastTick when the last operation was not an analysis tick: what it found
NoTick == [ran |-> FALSE, previousLevel |-> previousLevelRef,
           previousTransient |-> transientValueRef, previousSmoothed |-> smoothedRef]

\* the state at mount: the caller's props, every ref and the state at its initial value
HookInit ==
    /\ isPlaying \in BOOLEAN
    /\ analyserNode \in BOOLEAN
    /\ audioContext \in BOOLEAN
    /\ options \in AnalyzerOptions
    /\ audioData = ZeroData
    /\ smoothedRef = ZeroData
    /\ previousLevelRef = Zero
    /\ transientValueRef = Zero
    /\ frameIdRef = 0
    /\ effectDeps = <<>>
    /\ effectCleanup = FALSE
    /\ rafQueue = {}
    /\ rafNext = 1
    /\ hookTicks = 0
    /\ hookRenders = 0
    /\ hookEvent = "mount"
    /\ lastTick = [ran |-> FALSE, previousLevel |-> Zero, previousTransient |-> Zero,
                   previousSmoothed |-> ZeroData]

\* the dependencies of the analysis effect that can change (the options are fixed)
Props == <<isPlaying, analyserNode, audioContext>>

\* a re-render with one prop changed
SetProps ==
    /\ hookRenders < MaxRenders
    /\ \/ isPlaying' = ~isPlaying /\ UNCHANGED <<analyserNode, audioContext>>
       \/ analyserNode' = ~analyserNode /\ UNCHANGED <<isPlaying, audioContext>>
       \/ audioContext' = ~audioContext /\ UNCHANGED <<isPlaying, analyserNode>>
    /\ hookRenders' = hookRenders + 1
    /\ hookEvent' = "props"
    /\ UNCHANGED <<options, audioData, smoothedRef, previousLevelRef, transientValueRef,
                   frameIdRef, effectDeps, effectCleanup, rafQueue, rafNext, hookTicks,
                   lastTick>>
    /\ UNCHANGED notHook

\* cancelAnimationFrame(id)
\* a cancelAnimationFrame without effect
CancelNothing(queue, id) == queue

Cancel(queue, id) == { cb \in queue : cb.id # id }

\* a cleanup that leaves the pending callback in the queue
CleanupQueueKeeping == rafQueue

\* the cleanup function of the analysis effect: the queue and frameIdRef it leaves
CleanupQueue == IF effectCleanup /\ frameIdRef # 0 THEN Cancel(rafQueue, frameIdRef) ELSE rafQueue
CleanupFrameId == IF effectCleanup /\ frameIdRef # 0 THEN 0 ELSE frameIdRef

\* a reset that leaves the transient detector as it is
ResetBranchKeepingDetector ==
    /\ audioData' = ZeroData
    /\ smoothedRef' = ZeroData
    /\ frameIdRef' = CleanupFrameId
    /\ rafQueue' = CleanupQueue
    /\ effectCleanup' = FALSE
    /\ hookEvent' = "reset"
    /\ UNCHANGED <<rafNext, previousLevelRef, transientValueRef>>

\* the effect body when !isPlaying || !analyserNode || !audioContext
ResetBranch ==
    /\ audioData' = ZeroData
    /\ smoothedRef' = ZeroData
    /\ previousLevelRef' = Zero
    /\ transientValueRef' = Zero
    /\ frameIdRef' = CleanupFrameId
    /\ rafQueue' = CleanupQueue
    /\ effectCleanup' = FALSE
    /\ hookEvent' = "reset"
    /\ UNCHANGED rafNext

\* the effect body otherwise: "Start analysis loop"
StartBranch ==
    /\ frameIdRef' = rafNext
    /\ rafQueue' = CleanupQueue \cup
                     {[id |-> rafNext, isPlaying |-> isPlaying, analyserNode |-> analyserNode,
                       bins |-> BinRanges(options)]}
    /\ rafNext' = rafNext + 1
    /\ effectCleanup' = TRUE
    /\ hookEvent' = "start"
    /\ UNCHANGED <<audioData, smoothedRef, previousLevelRef, transientValueRef>>

\* React runs the cleanup of the previous effect run, then the effect body, whenever
\* the dependencies differ from those of the last run
RunEffect ==
    /\ effectDeps # Props
    /\ effectDeps' = Props
    /\ IF ~isPlaying \/ ~analyserNode \/ ~audioContext THEN ResetBranch ELSE StartBranch
    /\ lastTick' = NoTick
    /\ UNCHANGED <<isPlaying, analyserNode, audioContext, options, hookTicks, hookRenders>>
    /\ UNCHANGED notHook

\* analyze returning early: its closure's isPlaying is false or its analyserNode null
AnalyzeStop(cb) ==
    /\ rafQueue' = IF frameIdRef # 0 THEN Cancel(rafQueue \ {cb}, frameIdRef) ELSE rafQueue \ {cb}
    /\ frameIdRef' = 0
    /\ hookEvent' = "analyze-stop"
    /\ lastTick' = NoTick
    /\ UNCHANGED <<audioData, smoothedRef, previousLevelRef, transientValueRef, rafNext,
                   hookTicks>>

\* a tick that stores the smoothed level as the previous level
AnalyzeFrameSmoothedPrevious(cb, dataArray) ==
    LET bass == bassEnergy(dataArray, cb.bins)
        mid == midEnergy(dataArray, cb.bins)
        treble == trebleEnergy(dataArray, cb.bins)
        overall == overallLevel(bass, mid, treble)
        increase == levelIncrease(overall, previousLevelRef)
        transient == transientValue(transientValueRef, increase, overall, options)
        sm == smoothed(smoothedRef, overall, bass, mid, treble, transient, options)
    IN  /\ transientValueRef' = transient
        /\ smoothedRef' = sm
        /\ audioData' = sm
        /\ previousLevelRef' = sm.level
        /\ frameIdRef' = rafNext
        /\ rafQueue' = (rafQueue \ {cb}) \cup {[cb EXCEPT !.id = rafNext]}
        /\ rafNext' = rafNext + 1
        /\ hookTicks' = hookTicks + 1
        /\ hookEvent' = "analyze"
        /\ lastTick' = [ran |-> TRUE, bassEnergy |-> bass, midEnergy |-> mid,
                        trebleEnergy |-> treble, overallLevel |-> overall,
                        previousLevel |-> previousLevelRef,
                        previousTransient |-> transientValueRef,
                        previousSmoothed |-> smoothedRef]

\* one analysis tick on the frame dataArray
AnalyzeFrame(cb, dataArray) ==
    LET bass == bassEnergy(dataArray, cb.bins)
        mid == midEnergy(dataArray, cb.bins)
        treble == trebleEnergy(dataArray, cb.bins)
        overall == overallLevel(bass, mid, treble)
        increase == levelIncrease(overall, previousLevelRef)
        transient == transientValue(transientValueRef, increase, overall, options)
        sm == smoothed(smoothedRef, overall, bass, mid, treble, transient, options)
    IN  /\ transientValueRef' = transient
        /\ smoothedRef' = sm
        /\ audioData' = sm
        /\ previousLevelRef' = overall
        /\ frameIdRef' = rafNext
        /\ rafQueue' = (rafQueue \ {cb}) \cup {[cb EXCEPT !.id = rafNext]}
        /\ rafNext' = rafNext + 1
        /\ hookTicks' = hookTicks + 1
        /\ hookEvent' = "analyze"
        /\ lastTick' = [ran |-> TRUE, bassEnergy |-> bass, midEnergy |-> mid,
                        trebleEnergy |-> treble, overallLevel |-> overall,
                        previousLevel |-> previousLevelRef,
                        previousTransient |-> transientValueRef,
                        previousSmoothed |-> smoothedRef]

\* a pending animation frame fires and runs analyze
Analyze ==
    /\ hookTicks < MaxTicks
    /\ \E cb \in rafQueue :
          IF ~cb.isPlaying \/ ~cb.analyserNode
          THEN AnalyzeStop(cb)
          ELSE \E dataArray \in Frames(cb.bins) : AnalyzeFrame(cb, dataArray)
    /\ UNCHANGED <<isPlaying, analyserNode, audioContext, options, effectDeps, effectCleanup,
                   hookRenders>>
    /\ UNCHANGED notHook

(***************************************************************************)
(* App.tsx: the frequency bands of animate                                 *)
(***************************************************************************)
\* analyser.fftSize of every analyser App.tsx creates
AppFftSize == 512

\* "Divide frequency spectrum into bands"
BandEnds(binCount) ==
    LET bassEnd == Max(1, Floor(RMul(R(binCount), <<5, 100>>)))
        lowMidEnd == Max(bassEnd + 1, Floor(RMul(R(binCount), <<15, 100>>)))
        midEnd == Max(lowMidEnd + 1, Floor(RMul(R(binCount), <<35, 100>>)))
        highMidEnd == Max(midEnd + 1, Floor(RMul(R(binCount), <<65, 100>>)))
    IN  [binCount |-> binCount, bassEnd |-> bassEnd, lowMidEnd |-> lowMidEnd,
         midEnd |-> midEnd, highMidEnd |-> highMidEnd]

\* dataArray.slice(lo, hi).reduce((a, b) => a + b, 0)
SliceSum(dataArray, lo, hi, binCount) == SumBins(dataArray, Min(lo, binCount), Min(hi, binCount))

\* sum / count / 255
BandMean(sum, count) == RDiv(RDiv(R(sum), R(count)), R(255))

\* frequencyData.overall
appOverall(bass, lowMid, mid, highMid, treble) ==
    RAdd(RAdd(RAdd(RAdd(RMul(bass, <<3, 10>>), RMul(lowMid, <<2, 10>>)),
                   RMul(mid, <<25, 100>>)), RMul(highMid, <<15, 100>>)),
         RMul(treble, <<1, 10>>))

\* frequencyData after the analysis of one frame
frequencyBands(dataArray, e) ==
    LET n == e.binCount
        bass == BandMean(SliceSum(dataArray, 0, e.bassEnd, n), e.bassEnd)
        lowMid == BandMean(SliceSum(dataArray, e.bassEnd, e.lowMidEnd, n), e.lowMidEnd - e.bassEnd)
        mid == BandMean(SliceSum(dataArray, e.lowMidEnd, e.midEnd, n), e.midEnd - e.lowMidEnd)
        highMid == BandMean(SliceSum(dataArray, e.midEnd, e.highMidEnd, n), e.highMidEnd - e.midEnd)
        treble == BandMean(SliceSum(dataArray, e.highMidEnd, n, n), n - e.highMidEnd)
    IN  [bass |-> bass, lowMid |-> lowMid, mid |-> mid, highMid |-> highMid,
         treble |-> treble, overall |-> appOverall(bass, lowMid, mid, highMid, treble)]

\* the mean bass magnitude of beat detection
bassValue(dataArray, e) == RDiv(R(SliceSum(dataArray, 0, e.bassEnd, e.binCount)), R(e.bassEnd))

\* frames with one magnitude per band region
AppFrames(e, levels) ==
    { [i \in 0 .. e.binCount - 1 |->
          IF i < e.bassEnd THEN a
          ELSE IF i < e.lowMidEnd THEN b
          ELSE IF i < e.midEnd THEN c
          ELSE IF i < e.highMidEnd THEN d ELSE t] :
      a \in levels, b \in levels, c \in levels, d \in levels, t \in levels }

(***************************************************************************)
(* The band analysis of both analysers as a function of the frame          *)
(***************************************************************************)
NoBands == [ran |-> FALSE]

LevelsInit ==
    /\ hookBands = NoBands
    /\ appBands = NoBands

\* analyze's band energies and overall level for some options and frame
HookBands ==
    /\ \E opt \in AnalyzerOptions :
          \E dataArray \in Frames(BinRanges(opt)) :
             LET bins == BinRanges(opt)
                 bass == bassEnergy(dataArray, bins)
                 mid == midEnergy(dataArray, bins)
                 treble == trebleEnergy(dataArray, bins)
             IN  hookBands' = [ran |-> TRUE, bass |-> bass, mid |-> mid, treble |-> treble,
                               overall |-> overallLevel(bass, mid, treble)]
    /\ UNCHANGED appBands
    /\ UNCHANGED notLevels

\* animate's frequencyData for some frame
AppBands ==
    /\ \E dataArray \in AppFrames(BandEnds(AppFftSize \div 2), ByteLevels) :
          appBands' = [ran |-> TRUE,
                       frequencyData |-> frequencyBands(dataArray, BandEnds(AppFftSize \div 2))]
    /\ UNCHANGED hookBands
    /\ UNCHANGED notLevels

(***************************************************************************)
(* App.tsx: the canvas visualiser                                          *)
(***************************************************************************)

\* window.innerWidth and window.innerHeight when the effect runs
canvasWidth == 4
canvasHeight == 3

\* the positions of the particle slider (one unit is one step of the slider) and the
\* position useState starts at
MaxParticles == 3
InitialParticles == 2
ParticleCounts == 1 .. MaxParticles

\* animation frames and state changes explored per behaviour
MaxFrames == 2
MaxAppRenders == 3

\* milliseconds between two animation frames
FrameMillis == {100, 250}

\* new Particle(canvasWidth, canvasHeight), for the values Math.random() may return
NewParticles ==
    { [x |-> RMul(r, R(canvasWidth)), y |-> RMul(r, R(canvasHeight)),
       vx |-> Zero, vy |-> Zero, baseSpeed |-> RAdd(<<1, 2>>, RMul(r, <<3, 2>>))] :
      r \in {Zero, <<1, 2>>} }

\* the k particles one adjustment constructs
Fresh(k) == { [i \in 1 .. k |-> p] : p \in NewParticles }

\* what the updates of one frame read from the noise field: n2, and the cosine and sine
\* of the angle n1 and the field rotation give
NoiseSamples ==
    { [n2 |-> <<1, 2>>, cos |-> One, sin |-> Zero],
      [n2 |-> <<-1, 2>>, cos |-> Zero, sin |-> One] }

ZeroBands == [bass |-> Zero, lowMid |-> Zero, mid |-> Zero, highMid |-> Zero,
              treble |-> Zero, overall |-> Zero]

\* the locals of one run of the main effect, which its animate closes over
NewClosure(count, scheme) ==
    [particleCount |-> count, colorScheme |-> scheme, time |-> Zero,
     beatIntensity |-> Zero, audioLevel |-> Zero, frequencyData |-> ZeroBands,
     frameCount |-> 0, lastBeatTime |-> 0, fieldRotation |-> Zero]

\* the frames the animation loop is run on: silence and full scale
LoopFrames(e) == { [i \in 0 .. e.binCount - 1 |-> a] : a \in ByteLevels }

\* what getByteFrequencyData can deliver: any frame while a source feeds the analyser,
\* and without one the smoothed spectrum (smoothingTimeConstant 0.8) on its way down
\* from the magnitude held
DeliveredFrames(e, source, held) == { f \in LoopFrames(e) : source \/ f[0] <= held }

AppInit ==
    /\ particleCount = InitialParticles
    /\ colorScheme = "aurora"
    /\ appIsPlaying = FALSE
    /\ isPlayingRef = FALSE
    /\ analyserRef = FALSE
    /\ particlesRef = <<>>
    /\ animationRef = 0
    /\ appRafQueue = {}
    /\ appRafNext = 1
    /\ appEffectDeps = <<>>
    /\ appEpoch = 0
    /\ closures = <<>>
    /\ now = 1000
    /\ appFrames = 0
    /\ appRenders = 0
    /\ appEvent = "mount"
    /\ lastFrame = [drawn |-> FALSE]
    /\ beatLog = [last |-> 0, gap |-> 0]
    /\ audioSourceRef = FALSE
    /\ analyserData = 0

AppDeps == <<particleCount, colorScheme>>

\* the slider: setParticleCount(Number(e.target.value))
SetParticleCount ==
    /\ appRenders < MaxAppRenders
    /\ \E n \in ParticleCounts \ {particleCount} : particleCount' = n
    /\ appRenders' = appRenders + 1
    /\ appEvent' = "particleCount"
    /\ UNCHANGED <<colorScheme, appIsPlaying, isPlayingRef, analyserRef, particlesRef,
                   animationRef, appRafQueue, appRafNext, appEffectDeps, appEpoch, closures,
                   now, appFrames, lastFrame, beatLog>>
    /\ UNCHANGED sourceVars
    /\ UNCHANGED notApp

\* a colour scheme button (a change of trailLength acts on the effect in the same way)
SetColorScheme ==
    /\ appRenders < MaxAppRenders
    /\ colorScheme' = IF colorScheme = "aurora" THEN "fire" ELSE "aurora"
    /\ appRenders' = appRenders + 1
    /\ appEvent' = "colorScheme"
    /\ UNCHANGED <<particleCount, appIsPlaying, isPlayingRef, analyserRef, particlesRef,
                   animationRef, appRafQueue, appRafNext, appEffectDeps, appEpoch, closures,
                   now, appFrames, lastFrame, beatLog>>
    /\ UNCHANGED sourceVars
    /\ UNCHANGED notApp

\* play / pause: the handlers set the state, and most of them the ref as well
SetIsPlaying ==
    /\ appRenders < MaxAppRenders
    /\ appIsPlaying' = ~appIsPlaying
    /\ isPlayingRef' \in {isPlayingRef, ~appIsPlaying}
    /\ appRenders' = appRenders + 1
    /\ appEvent' = "isPlaying"
    /\ UNCHANGED <<particleCount, colorScheme, analyserRef, particlesRef, animationRef,
                   appRafQueue, appRafNext, appEffectDeps, appEpoch, closures, now, appFrames,
                   lastFrame, beatLog>>
    /\ UNCHANGED sourceVars
    /\ UNCHANGED notApp

\* useEffect(() => { isPlayingRef.current = isPlaying }, [isPlaying])
SyncIsPlayingRef ==
    /\ isPlayingRef # appIsPlaying
    /\ isPlayingRef' = appIsPlaying
    /\ appEvent' = "syncRef"
    /\ UNCHANGED <<particleCount, colorScheme, appIsPlaying, analyserRef, particlesRef,
                   animationRef, appRafQueue, appRafNext, appEffectDeps, appEpoch, closures,
                   now, appFrames, appRenders, lastFrame, beatLog>>
    /\ UNCHANGED sourceVars
    /\ UNCHANGED notApp

\* a file upload or the microphone creates a source and a new analyser and connects them
ConnectAnalyser ==
    /\ ~audioSourceRef
    /\ analyserRef' = TRUE
    /\ audioSourceRef' = TRUE
    /\ analyserData' = 0
    /\ appEvent' = "analyser"
    /\ UNCHANGED <<particleCount, colorScheme, appIsPlaying, isPlayingRef, particlesRef,
                   animationRef, appRafQueue, appRafNext, appEffectDeps, appEpoch, closures,
                   now, appFrames, appRenders, lastFrame, beatLog>>
    /\ UNCHANGED notApp

\* the source is disconnected and dropped (the microphone is switched off, which also
\* sets isPlaying to false, or a file upload starts); analyserRef keeps the analyser
DisconnectSource ==
    /\ audioSourceRef
    /\ appRenders < MaxAppRenders
    /\ audioSourceRef' = FALSE
    /\ appIsPlaying' \in {appIsPlaying, FALSE}
    /\ appRenders' = appRenders + 1
    /\ appEvent' = "disconnect"
    /\ UNCHANGED <<particleCount, colorScheme, isPlayingRef, analyserRef, particlesRef,
                   animationRef, appRafQueue, appRafNext, appEffectDeps, appEpoch, closures,
                   now, appFrames, lastFrame, beatLog, analyserData>>
    /\ UNCHANGED notApp

\* how many particles "Initialize or adjust particles" of the effect constructs
EffectNeeds(particles, count) ==
    IF Len(particles) = 0 THEN count ELSE Max(count - Len(particles), 0)

\* an adjustment that never truncates
EffectParticlesGrowOnly(particles, count, fresh) == particles \o fresh

\* "Initialize or adjust particles based on particleCount": the array the effect leaves,
\* fresh being the particles it constructs
EffectParticles(particles, count, fresh) ==
    IF Len(particles) = 0 THEN fresh
    ELSE IF Len(particles) < count THEN particles \o fresh
    ELSE SubSeq(particles, 1, count)

\* the closures a pending callback still refers to
Live(all, queue) == [e \in {cb.epoch : cb \in queue} |-> all[e]]

\* the main effect: the cleanup of its last run, then its body
AppRunEffect ==
    /\ appEffectDeps # AppDeps
    /\ LET cancelled == appEffectDeps # <<>> /\ animationRef # 0
           queue == IF cancelled THEN Cancel(appRafQueue, animationRef) ELSE appRafQueue
           frameId == IF appEffectDeps # <<>> THEN 0 ELSE animationRef
           epoch == appEpoch + 1
           start == frameId = 0
           queue2 == IF start THEN queue \cup {[id |-> appRafNext, epoch |-> epoch]} ELSE queue
       IN  /\ \E fresh \in Fresh(EffectNeeds(particlesRef, particleCount)) :
                particlesRef' = EffectParticles(particlesRef, particleCount, fresh)
           /\ isPlayingRef' = appIsPlaying
           /\ appEpoch' = epoch
           /\ animationRef' = IF start THEN appRafNext ELSE frameId
           /\ appRafNext' = IF start THEN appRafNext + 1 ELSE appRafNext
           /\ appRafQueue' = queue2
           /\ closures' = Live((epoch :> NewClosure(particleCount, colorScheme)) @@ closures,
                               queue2)
    /\ appEffectDeps' = AppDeps
    /\ appEvent' = "effect"
    /\ lastFrame' = [drawn |-> FALSE]
    /\ UNCHANGED beatLog
    /\ UNCHANGED <<particleCount, colorScheme, appIsPlaying, analyserRef, now, appFrames,
                   appRenders>>
    /\ UNCHANGED sourceVars
    /\ UNCHANGED notApp

\* an update that moves the particle and does not wrap it around
ParticleUpdateNoWrap(p, s, audio) ==
    LET speed == RMul(p.baseSpeed, RAdd(One, RMul(audio.overall, R(2))))
        turbulence == RMul(audio.mid, R(3))
        force == RMul(RAdd(RMul(s.n2, R(2)), RMul(audio.overall, <<3, 2>>)),
                      RAdd(One, turbulence))
        damping == RSub(<<95, 100>>, RMul(audio.overall, <<1, 10>>))
        vx == RMul(RAdd(p.vx, RMul(RMul(s.cos, force), <<1, 10>>)), damping)
        vy == RMul(RAdd(p.vy, RMul(RMul(s.sin, force), <<1, 10>>)), damping)
    IN  [p EXCEPT !.x = RAdd(p.x, RMul(vx, speed)), !.y = RAdd(p.y, RMul(vy, speed)),
                  !.vx = vx, !.vy = vy]

\* Particle.update, s being what it reads from the noise field
ParticleUpdate(p, s, audio) ==
    LET speed == RMul(p.baseSpeed, RAdd(One, RMul(audio.overall, R(2))))
        turbulence == RMul(audio.mid, R(3))
        force == RMul(RAdd(RMul(s.n2, R(2)), RMul(audio.overall, <<3, 2>>)),
                      RAdd(One, turbulence))
        damping == RSub(<<95, 100>>, RMul(audio.overall, <<1, 10>>))
        vx == RMul(RAdd(p.vx, RMul(RMul(s.cos, force), <<1, 10>>)), damping)
        vy == RMul(RAdd(p.vy, RMul(RMul(s.sin, force), <<1, 10>>)), damping)
        x1 == RAdd(p.x, RMul(vx, speed))
        y1 == RAdd(p.y, RMul(vy, speed))
        x2 == IF RLt(x1, Zero) THEN R(canvasWidth) ELSE x1
        x3 == IF RLt(R(canvasWidth), x2) THEN Zero ELSE x2
        y2 == IF RLt(y1, Zero) THEN R(canvasHeight) ELSE y1
        y3 == IF RLt(R(canvasHeight), y2) THEN Zero ELSE y2
    IN  [p EXCEPT !.x = x3, !.y = y3, !.vx = vx, !.vy = vy]

\* how many particles the "particle management" of animate constructs
AnimateNeeds(particles, count) == Max(count - Len(particles), 0)

\* the array the "particle management" of animate leaves
AnimateParticles(particles, count, fresh) ==
    IF Len(particles) = count THEN particles
    ELSE IF Len(particles) < count THEN particles \o fresh
    ELSE SubSeq(particles, 1, Len(particles) - (Len(particles) - count))

\* the audio analysis and beat detection of one playing frame, on dataArray at time t
AnalysedClosure(c, dataArray, t) ==
    LET e == BandEnds(AppFftSize \div 2)
        fd == frequencyBands(dataArray, e)
        beat == RLt(R(200), bassValue(dataArray, e)) /\ t - c.lastBeatTime > 200
    IN  [c EXCEPT !.frequencyData = fd, !.audioLevel = fd.overall,
                  !.beatIntensity = IF beat THEN One ELSE @,
                  !.lastBeatTime = IF beat THEN t ELSE @]

\* "Reset when no audio"
ResetClosure(c) == [c EXCEPT !.frequencyData = ZeroBands]

\* beat decay, field rotation and time of one playing frame
AdvancedClosure(c) ==
    LET beatIntensity == RMul(c.beatIntensity, <<9, 10>>)
    IN  [c EXCEPT !.beatIntensity = beatIntensity,
                  !.fieldRotation = RAdd(@, RAdd(RMul(beatIntensity, <<1, 2>>),
                                                 RMul(c.frequencyData.bass, <<3, 10>>))),
                  !.time = RAdd(@, RAdd(<<1, 1000>>, RMul(c.audioLevel, <<2, 1000>>)))]

\* a frame of animate while isPlayingRef.current is true
AnimatePlaying(cb, t) ==
    LET c0 == [closures[cb.epoch] EXCEPT !.frameCount = @ + 1]
    IN  \E dataArray \in DeliveredFrames(BandEnds(AppFftSize \div 2), audioSourceRef,
                                         analyserData) :
        \E c1 \in {IF analyserRef THEN AnalysedClosure(c0, dataArray, t) ELSE ResetClosure(c0)} :
          LET c2 == AdvancedClosure(c1)
          IN  /\ closures' = [closures EXCEPT ![cb.epoch] = c2]
              /\ beatLog' = IF c1.lastBeatTime # c0.lastBeatTime
                            THEN [last |-> t, gap |-> IF beatLog.last = 0 THEN 0
                                                      ELSE t - beatLog.last]
                            ELSE beatLog
              /\ analyserData' = IF analyserRef THEN dataArray[0] ELSE analyserData
              /\ \E fresh \in Fresh(AnimateNeeds(particlesRef, c2.particleCount)) :
                   LET managed == AnimateParticles(particlesRef, c2.particleCount, fresh)
                   IN  \E s \in NoiseSamples :
                          particlesRef' =
                             [i \in 1 .. Len(managed) |->
                                 ParticleUpdate(managed[i], s, c2.frequencyData)]
              /\ lastFrame' = [drawn |-> TRUE, particleCount |-> c2.particleCount,
                               epoch |-> cb.epoch, before |-> Len(particlesRef),
                               analyser |-> analyserRef, source |-> audioSourceRef]

\* a paused frame that still runs the beat decay, the field rotation and the time
AnimatePausedAdvancing(cb) ==
    /\ closures' = [closures EXCEPT ![cb.epoch] = AdvancedClosure(@)]
    /\ UNCHANGED <<particlesRef, analyserData, beatLog>>
    /\ lastFrame' = [drawn |-> FALSE]

\* a frame of animate while isPlayingRef.current is false: the body of the if is skipped
AnimatePaused(cb) ==
    /\ UNCHANGED <<closures, particlesRef, analyserData, beatLog>>
    /\ lastFrame' = [drawn |-> FALSE]

\* a pending animation frame fires and runs animate
Animate ==
    /\ appFrames < MaxFrames
    /\ \E cb \in appRafQueue, dt \in FrameMillis :
          /\ now' = now + dt
          /\ IF isPlayingRef
             THEN AnimatePlaying(cb, now + dt)
             ELSE AnimatePaused(cb)
          /\ animationRef' = appRafNext
          /\ appRafQueue' = (appRafQueue \ {cb}) \cup {[id |-> appRafNext, epoch |-> cb.epoch]}
    /\ appRafNext' = appRafNext + 1
    /\ appFrames' = appFrames + 1
    /\ appEvent' = "frame"
    /\ UNCHANGED <<particleCount, colorScheme, appIsPlaying, isPlayingRef, analyserRef,
                   appEffectDeps, appEpoch, appRenders, audioSourceRef>>
    /\ UNCHANGED notApp

(***************************************************************************)
(* Particles.tsx: the colour mapping of the readback loop                  *)
(***************************************************************************)
RAbs(a) == <<Abs(a[1]), a[2]>>

\* a % m of JavaScript: the remainder has the sign of a
JsMod(a, m) ==
    LET q == RDiv(a, m)
        t == IF q[1] >= 0 THEN q[1] \div q[2] ELSE -((-q[1]) \div q[2])
    IN  RSub(a, RMul(R(t), m))

\* mod(a, m) of GLSL: a - m * floor(a / m)
GlslMod(a, m) == RSub(a, RMul(R(Floor(RDiv(a, m))), m))

\* hue2rgb without the wrap of a negative t
hue2rgbNoWrap(p, q, t0) ==
    LET t == IF RLt(One, t0) THEN RSub(t0, One) ELSE t0
    IN  IF RLt(t, <<1, 6>>) THEN RAdd(p, RMul(RMul(RSub(q, p), R(6)), t))
        ELSE IF RLt(t, <<1, 2>>) THEN q
        ELSE IF RLt(t, <<2, 3>>) THEN RAdd(p, RMul(RMul(RSub(q, p), RSub(<<2, 3>>, t)), R(6)))
        ELSE p

\* hue2rgb of hslToRgb
hue2rgb(p, q, t0) ==
    LET t1 == IF RLt(t0, Zero) THEN RAdd(t0, One) ELSE t0
        t == IF RLt(One, t1) THEN RSub(t1, One) ELSE t1
    IN  IF RLt(t, <<1, 6>>) THEN RAdd(p, RMul(RMul(RSub(q, p), R(6)), t))
        ELSE IF RLt(t, <<1, 2>>) THEN q
        ELSE IF RLt(t, <<2, 3>>) THEN RAdd(p, RMul(RMul(RSub(q, p), RSub(<<2, 3>>, t)), R(6)))
        ELSE p

\* function hslToRgb(h, s, l)
hslToRgb(h, s, l) ==
    IF s = Zero THEN [r |-> l, g |-> l, b |-> l]
    ELSE LET q == IF RLt(l, <<1, 2>>) THEN RMul(l, RAdd(One, s))
                  ELSE RSub(RAdd(l, s), RMul(l, s))
             p == RSub(RMul(R(2), l), q)
         IN  [r |-> hue2rgb(p, q, RAdd(h, <<1, 3>>)),
              g |-> hue2rgb(p, q, h),
              b |-> hue2rgb(p, q, RSub(h, <<1, 3>>))]

\* "Calculate color based on scheme": sine is the value Math.sin returns
schemeHue(scheme, hue, time, audio, sine) ==
    IF scheme = "aurora"
    THEN JsMod(RAdd(RAdd(RAdd(hue, RMul(time, R(20))), RMul(audio.level, R(60))),
                    RMul(audio.transient, R(30))), R(360))
    ELSE IF scheme = "fire"
    THEN RAdd(RAdd(RMul(sine, R(60)), RMul(audio.bass, R(30))), RMul(audio.transient, R(20)))
    ELSE IF scheme = "ocean"
    THEN RAdd(RAdd(RAdd(R(180), RMul(sine, R(60))), RMul(audio.mid, R(40))),
              RMul(audio.transient, R(25)))
    ELSE JsMod(RAdd(RAdd(RAdd(hue, RMul(time, R(20))), RMul(audio.level, R(80))),
                    RMul(audio.transient, R(40))), R(360))

\* what the readback loop writes for one particle whose texel holds hue and life
particleColor(scheme, hue, life, time, audio, sine) ==
    LET h0 == schemeHue(scheme, hue, time, audio, sine)
        saturation == RAdd(<<3, 10>>, RMul(audio.level, <<6, 10>>))
        lightness == RAdd(<<3, 10>>, RMul(audio.level, <<5, 10>>))
        warmShift == RMul(audio.level, R(30))
        coolShift == RMul(RSub(One, audio.level), R(30))
        h == JsMod(RSub(RAdd(h0, warmShift), coolShift), R(360))
    IN  [h |-> h,
         color |-> hslToRgb(RDiv(h, R(360)), saturation, lightness),
         size |-> RMul(RMul(R(2), RAdd(RAdd(One, RMul(audio.level, <<1, 2>>)),
                                       RMul(audio.transient, <<3, 10>>))), life),
         alpha |-> RMul(RMin(RAdd(RAdd(<<8, 10>>, RMul(audio.level, <<3, 10>>)),
                                  RMul(audio.transient, <<2, 10>>)), One), life)]

\* the inputs the colour mapping is run on
ColorSchemes == {"aurora", "fire", "ocean", "rainbow"}
ColourInputs ==
    [scheme : ColorSchemes,
     hue : {Zero, R(120), <<719, 2>>},
     life : {Zero, <<1, 2>>, One},
     time : {Zero, <<7, 2>>},
     sine : {R(-1), Zero, One},
     audio : [level : {Zero, <<1, 2>>, One}, bass : {Zero, One}, mid : {Zero, One},
              treble : {Zero}, transient : {Zero, One}]]

NoColour == [ran |-> FALSE]

ColourInit ==
    /\ colourIn \in ColourInputs
    /\ colourOut = NoColour

ColourIdle ==
    /\ colourIn = [scheme |-> "aurora", hue |-> Zero, life |-> One, time |-> Zero,
                   sine |-> Zero,
                   audio |-> [level |-> Zero, bass |-> Zero, mid |-> Zero, treble |-> Zero,
                              transient |-> Zero]]
    /\ colourOut = NoColour

\* the body of the readback loop for one particle
MapColour ==
    /\ ~colourOut.ran
    /\ colourOut' = [ran |-> TRUE] @@
                    particleColor(colourIn.scheme, colourIn.hue, colourIn.life, colourIn.time,
                                  colourIn.audio, colourIn.sine)
    /\ UNCHANGED colourIn
    /\ UNCHANGED notColour

(***************************************************************************)
(* Particles.tsx: the GPU simulation, followed for one texel               *)
(***************************************************************************)
\* the side of the simulation textures (512 in Particles.tsx; a fragment reads only its
\* own texel, so the side only enters through uv and id)
TEXTURE_SIZE == 2

\* useFrame calls explored per behaviour: a particle that is not carried off lives 2000
\* ticks; one that drifts, or one whose textures are never written, is followed for
\* MaxDriftTicks calls
MaxGpuTicks == 2001
MaxDriftTicks == 40

Texels == (0 .. TEXTURE_SIZE - 1) \X (0 .. TEXTURE_SIZE - 1)

\* size of useThree
Sizes == { [width |-> 8, height |-> 6], [width |-> 5, height |-> 10] }

\* the audioData prop: silence and a loud beat
GpuAudio ==
    { ZeroData,
      [level |-> One, bass |-> One, mid |-> One, treble |-> One, transient |-> <<1, 2>>] }

\* the leva controls at their defaults
DefaultControls == [flowSpeed |-> One, curlInfluence |-> One, audioReactivity |-> One]

\* what curlNoise returns along the path of the particle: no flow, or a steady flow
\* along one axis
Still == [x |-> Zero, y |-> Zero]
CurlSamples == { Still, [x |-> R(20), y |-> Zero], [x |-> Zero, y |-> R(-20)] }

\* delta of useFrame
FrameDelta == <<1, 60>>

\* gl_FragCoord.xy / TEXTURE_SIZE of a texel
FragUv(t) == [x |-> Q(2 * t[1] + 1, 2 * TEXTURE_SIZE), y |-> Q(2 * t[2] + 1, 2 * TEXTURE_SIZE)]

\* "Calculate particle ID from UV for variation"
ParticleId(uv) == RAdd(uv.x, RMul(uv.y, R(TEXTURE_SIZE)))

\* cos(angle) and sin(angle) of the respawn, taken from rational points of the unit circle
RespawnDirection(t) ==
    LET k == (t[1] + t[2] * TEXTURE_SIZE) % 4
    IN  IF k = 0 THEN [cos |-> <<3, 5>>, sin |-> <<4, 5>>]
        ELSE IF k = 1 THEN [cos |-> <<-4, 5>>, sin |-> <<3, 5>>]
        ELSE IF k = 2 THEN [cos |-> Zero, sin |-> R(-1)]
        ELSE [cos |-> One, sin |-> Zero]

\* fillPositionTexture for texel t, hue being Math.random() * 360
fillPositionTexture(t, size, hue) ==
    [x |-> RSub(RMul(Q(t[1], TEXTURE_SIZE), R(size.width)), RMul(R(size.width), <<1, 2>>)),
     y |-> RSub(RMul(Q(t[2], TEXTURE_SIZE), R(size.height)), RMul(R(size.height), <<1, 2>>)),
     z |-> hue,
     w |-> One]

\* fillVelocityTexture
fillVelocityTexture == [x |-> Zero, y |-> Zero, z |-> Zero, w |-> One]

\* the uniforms useFrame sets on the position material
Uniforms(audio, controls, size) ==
    [audioLevel |-> audio.level,
     audioTransient |-> audio.transient,
     uCurlStrength |-> RAdd(RAdd(<<1, 2>>, RMul(audio.mid, R(2))), audio.transient),
     uFlowSpeed |-> controls.flowSpeed,
     uCurlInfluence |-> controls.curlInfluence,
     uAudioReactivity |-> controls.audioReactivity,
     resolution |-> [x |-> R(size.width), y |-> R(size.height)]]

\* mix(a, b, t) of GLSL
mix(a, b, t) == RAdd(RMul(a, RSub(One, t)), RMul(b, t))

\* length(v.xy) of a vector along one axis
length(v) == IF v.x = Zero THEN RAbs(v.y) ELSE RAbs(v.x)

\* "Reset particle if off-screen or life reaches 0"
offScreen(p, resolution) ==
    \/ RLt(p.x, RNeg(RMul(resolution.x, <<6, 10>>)))
    \/ RLt(RMul(resolution.x, <<6, 10>>), p.x)
    \/ RLt(p.y, RNeg(RMul(resolution.y, <<6, 10>>)))
    \/ RLt(RMul(resolution.y, <<6, 10>>), p.y)

\* a respawn test that ignores life
mustRespawnOffScreenOnly(p, life, resolution) == offScreen(p, resolution)

\* the condition of the respawn
mustRespawn(p, life, resolution) == offScreen(p, resolution) \/ RLe(life, Zero)

\* a respawn at twice the radius of the resolution
respawnPositionFar(id, dir, resolution) ==
    LET radius == RMul(RMin(resolution.x, resolution.y), R(2))
    IN  [x |-> RMul(dir.cos, radius), y |-> RMul(dir.sin, radius)]

\* the position of a respawned particle
respawnPosition(id, dir, resolution) ==
    LET radius == RMul(RMul(RDiv(id, R(TEXTURE_SIZE * TEXTURE_SIZE)),
                            RMin(resolution.x, resolution.y)), <<3, 10>>)
    IN  [x |-> RMul(dir.cos, radius), y |-> RMul(dir.sin, radius)]

\* main of positionFragmentShader for texel t: pos and vel are the texels read, u the
\* uniforms, field what curlNoise returns
positionMain(t, pos, vel, u, field) ==
    LET uv == FragUv(t)
        k == RMul(RMul(u.uCurlStrength, u.uAudioReactivity), u.uCurlInfluence)
        curl == [x |-> RMul(field.x, k), y |-> RMul(field.y, k)]
        id == ParticleId(uv)
        baseSpeed == RAdd(<<1, 2>>, RMul(RDiv(id, R(TEXTURE_SIZE * TEXTURE_SIZE)), <<3, 2>>))
        speedMultiplier == RAdd(One, RMul(RMul(u.audioLevel, R(2)), u.uAudioReactivity))
        speed == RMul(RMul(baseSpeed, u.uFlowSpeed), speedMultiplier)
        blend == RMul(u.uCurlInfluence, <<1, 10>>)
        damping == RSub(<<98, 100>>, RMul(u.audioLevel, <<5, 100>>))
        v == [x |-> RMul(mix(vel.x, curl.x, blend), damping),
              y |-> RMul(mix(vel.y, curl.y, blend), damping)]
        p == [x |-> RAdd(pos.x, RMul(v.x, speed)), y |-> RAdd(pos.y, RMul(v.y, speed))]
        life == RSub(pos.w, <<5, 10000>>)
        respawn == mustRespawn(p, life, u.resolution)
        p2 == IF respawn THEN respawnPosition(id, RespawnDirection(t), u.resolution) ELSE p
        z2 == IF respawn THEN GlslMod(RMul(id, R(360)), R(360)) ELSE pos.z
        v2 == IF respawn THEN Still ELSE v
        life2 == IF respawn THEN One ELSE life
        hue == GlslMod(RAdd(RAdd(RAdd(z2, RMul(length(v2), <<1, 2>>)),
                                 RMul(u.audioLevel, R(2))),
                            RMul(u.audioTransient, R(5))), R(360))
    IN  [fragColor |-> [x |-> p2.x, y |-> p2.y, z |-> hue, w |-> life2],
         integrated |-> p, decayed |-> life, offScreen |-> offScreen(p, u.resolution),
         respawned |-> respawn, v |-> v2]

\* main of velocityFragmentShader: the velocity texel is passed through
velocityMain(pos, vel) == [x |-> vel.x, y |-> vel.y, z |-> vel.z, w |-> One]

NoShade == [ran |-> FALSE]
NoGeometry == [read |-> FALSE]

GpuInit ==
    /\ gpuSize \in Sizes
    /\ gpuAudio \in GpuAudio
    /\ gpuControls = DefaultControls
    /\ gpuScheme = "aurora"
    /\ computeRuns \in BOOLEAN
    /\ texel \in Texels
    /\ curlField \in (IF computeRuns THEN CurlSamples ELSE {Still})
    /\ texturePosition = fillPositionTexture(texel, gpuSize, R(90))
    /\ textureVelocity = fillVelocityTexture
    /\ timeRef = Zero
    /\ readTextureFrameRef = 0
    /\ geometry = NoGeometry
    /\ gpuTicks = 0
    /\ lastShade = NoShade

GpuIdle ==
    /\ gpuSize = [width |-> 8, height |-> 6]
    /\ gpuAudio = ZeroData
    /\ gpuControls = DefaultControls
    /\ gpuScheme = "aurora"
    /\ computeRuns = TRUE
    /\ texel = <<0, 0>>
    /\ curlField = Still
    /\ texturePosition = fillPositionTexture(<<0, 0>>, [width |-> 8, height |-> 6], R(90))
    /\ textureVelocity = fillVelocityTexture
    /\ timeRef = Zero
    /\ readTextureFrameRef = 0
    /\ geometry = NoGeometry
    /\ gpuTicks = 0
    /\ lastShade = NoShade

\* the readback of the texel into the geometry attributes of its particle (the palette
\* the simulation is run with takes no sine)
Readback(pos, scheme, time, audio) ==
    [read |-> TRUE, x |-> pos.x, y |-> pos.y, life |-> pos.w] @@
    particleColor(scheme, pos.z, pos.w, time, audio, Zero)

\* one call of the useFrame callback
GpuTick ==
    /\ gpuTicks < (IF computeRuns /\ curlField = Still THEN MaxGpuTicks ELSE MaxDriftTicks)
    /\ LET time == RAdd(timeRef, FrameDelta)
           frame == readTextureFrameRef + 1
           shade == positionMain(texel, texturePosition, textureVelocity,
                                 Uniforms(gpuAudio, gpuControls, gpuSize), curlField)
           pos == IF computeRuns THEN shade.fragColor ELSE texturePosition
       IN  /\ timeRef' = time
           /\ readTextureFrameRef' = frame
           /\ texturePosition' = pos
           /\ textureVelocity' = IF computeRuns
                                 THEN velocityMain(texturePosition, textureVelocity)
                                 ELSE textureVelocity
           /\ lastShade' = IF computeRuns
                           THEN [ran |-> TRUE, integrated |-> shade.integrated,
                                 decayed |-> shade.decayed, offScreen |-> shade.offScreen,
                                 respawned |-> shade.respawned, v |-> shade.v]
                           ELSE NoShade
           /\ geometry' = IF frame % 2 = 0
                          THEN Readback(pos, gpuScheme, time, gpuAudio)
                          ELSE geometry
    /\ gpuTicks' = gpuTicks + 1
    /\ UNCHANGED <<gpuSize, gpuAudio, gpuControls, gpuScheme, computeRuns, texel, curlField>>
    /\ UNCHANGED notGpu

(***************************************************************************)
(* The bin ranges of both analysers as a function of the bin count         *)
(***************************************************************************)

\* the bin counts and sample rates the ranges are computed for
MaxRangeBins == 40
RangeSampleRates == {8000, 44100, 48000}
RangeInputs == [fftSize : {2 * n : n \in 1 .. MaxRangeBins}, sampleRate : RangeSampleRates]

\* how many bins a loop "for (i = lo; i < hi && i < binCount; i++)" visits
LoopBins(lo, hi, binCount) == Cardinality({i \in 0 .. binCount - 1 : lo <= i /\ i < hi})

\* the length of dataArray.slice(lo, hi)
SliceBins(lo, hi, binCount) == Max(0, Min(hi, binCount) - Min(lo, binCount))

\* the bins the three loops of analyze visit and the counts they divide by
hookBandBins(bins) ==
    [bass |-> LoopBins(bins.bassStartBin, bins.bassEndBin, bins.binCount),
     mid |-> LoopBins(bins.midStartBin, bins.midEndBin, bins.binCount),
     treble |-> LoopBins(bins.trebleStartBin, bins.trebleEndBin + 1, bins.binCount),
     bassBinCount |-> Max(1, bins.bassEndBin - bins.bassStartBin),
     midBinCount |-> Max(1, bins.midEndBin - bins.midStartBin),
     trebleBinCount |-> Max(1, bins.trebleEndBin - bins.trebleStartBin)]

\* the lengths of the five slices of animate and the counts they are divided by
appBandBins(e) ==
    [bass |-> SliceBins(0, e.bassEnd, e.binCount),
     lowMid |-> SliceBins(e.bassEnd, e.lowMidEnd, e.binCount),
     mid |-> SliceBins(e.lowMidEnd, e.midEnd, e.binCount),
     highMid |-> SliceBins(e.midEnd, e.highMidEnd, e.binCount),
     treble |-> SliceBins(e.highMidEnd, e.binCount, e.binCount),
     bassCount |-> e.bassEnd,
     lowMidCount |-> e.lowMidEnd - e.bassEnd,
     midCount |-> e.midEnd - e.lowMidEnd,
     highMidCount |-> e.highMidEnd - e.midEnd,
     trebleCount |-> e.binCount - e.highMidEnd]

NoRanges == [ran |-> FALSE]

RangeInit ==
    /\ rangeIn \in RangeInputs
    /\ rangeOut = NoRanges

RangeIdle ==
    /\ rangeIn = [fftSize |-> 2 * MaxRangeBins, sampleRate |-> 44100]
    /\ rangeOut = NoRanges

\* both analysers compute their ranges for the input
BandRanges ==
    /\ ~rangeOut.ran
    /\ rangeOut' = [ran |-> TRUE,
                    hook |-> hookBandBins(BinRanges(rangeIn)),
                    app |-> appBandBins(BandEnds(frequencyBinCount(rangeIn)))]
    /\ UNCHANGED rangeIn
    /\ UNCHANGED notRanges

(***************************************************************************)
(* App.tsx: the tables of PerlinNoise over the frames of one effect run    *)
(***************************************************************************)

\* the eviction of animate: every EvictionPeriod frames a table above its limit is cut
\* down to its last entries
EvictionPeriod == 50
MemoryLimit == 500
MemoryKeep == 200
GradientsLimit == 300
GradientsKeep == 100

\* the ends of the particle slider, and the playing frames followed
NoiseParticleCounts == {500, 8000}
MaxNoiseFrames == 101

\* noise.get calls of one particle update, and the grid points one call looks up
GetsPerParticle == 2
GridPointsPerGet == 4

\* a table that is never cut down
evictedNever(size, limit, keep) == size

\* the keys left after "if (keys.length > limit) delete all but the last keep"
evicted(size, limit, keep) == IF size > limit THEN keep ELSE size

\* the calls of get in one frame that miss the memo: none, half or all of them
MemoMisses(count) == {0, count, GetsPerParticle * count}

\* the grid points of those calls that have no gradient yet: none or all of them
GradientMisses(misses) == {0, GridPointsPerGet * misses}

NoiseInit ==
    /\ noiseParticles \in NoiseParticleCounts
    /\ memorySize = 0
    /\ gradientsSize = 0
    /\ noiseFrameCount = 0

NoiseIdle ==
    /\ noiseParticles = 500
    /\ memorySize = 0
    /\ gradientsSize = 0
    /\ noiseFrameCount = 0

\* one playing frame: frameCount++, the eviction on every EvictionPeriod-th frame, then
\* the update of every particle, each get adding at most one memo entry and four gradients
NoiseFrame ==
    /\ noiseFrameCount < MaxNoiseFrames
    /\ noiseFrameCount' = noiseFrameCount + 1
    /\ LET due == noiseFrameCount' % EvictionPeriod = 0
           memory == IF due THEN evicted(memorySize, MemoryLimit, MemoryKeep) ELSE memorySize
           gradients == IF due THEN evicted(gradientsSize, GradientsLimit, GradientsKeep)
                        ELSE gradientsSize
       IN  \E misses \in MemoMisses(noiseParticles) :
             \E points \in GradientMisses(misses) :
                /\ memorySize' = memory + misses
                /\ gradientsSize' = gradients + points
    /\ UNCHANGED noiseParticles
    /\ UNCHANGED notNoise

(***************************************************************************)
(* Particles.tsx: positionFragmentShader on non-finite values              *)
(***************************************************************************)

\* IEEE classes of a float; audioData is a prop of Particles and any number
FloatClasses == {"finite", "infinite", "nan"}

\* passes followed, and the steps of life of a particle (1 / 0.0005 in the shader)
MaxFpTicks == 8
LifeSteps == 4

\* a * b: NaN is absorbing and 0 * Inf is NaN
fpMul(a, b) ==
    IF a = "nan" \/ b = "nan" THEN {"nan"}
    ELSE IF a = "infinite" \/ b = "infinite" THEN {"infinite", "nan"}
    ELSE {"finite"}

\* a + b: NaN is absorbing and Inf - Inf is NaN
fpAdd(a, b) ==
    IF a = "nan" \/ b = "nan" THEN {"nan"}
    ELSE IF a = "infinite" /\ b = "infinite" THEN {"infinite", "nan"}
    ELSE IF a = "infinite" \/ b = "infinite" THEN {"infinite"}
    ELSE {"finite"}

\* mod(x, 360.0) = x - 360.0 * floor(x / 360.0)
fpMod(a) == IF a = "finite" THEN "finite" ELSE "nan"

\* p.x < -resolution.x * 0.6 || p.x > resolution.x * 0.6 || ...: every comparison with
\* NaN is false
fpOffScreen(p) ==
    IF p = "infinite" THEN {TRUE} ELSE IF p = "nan" THEN {FALSE} ELSE BOOLEAN

\* if (offScreen || life <= 0.0)
fpMustRespawn(p, off, life) == off \/ life <= 0

NoFp == [ran |-> FALSE]

FpInit ==
    /\ fpAudio = "finite"
    /\ fpPos = "finite"
    /\ fpHue = "finite"
    /\ fpLife = LifeSteps
    /\ fpTicks = 0
    /\ fpLast = NoFp

\* main of positionFragmentShader for one texel, with audioLevel of class a; the velocity
\* texture holds the zeros it was filled with
FpMain(a) ==
    \E speed \in fpMul(a, "finite"), damping \in fpMul(a, "finite") :
      \E mixed \in fpAdd("finite", IF fpPos = "finite" THEN "finite" ELSE "nan") :
        \E v \in fpMul(mixed, damping) :
          \E step \in fpMul(v, speed) :
            \E p \in fpAdd(fpPos, step) :
              \E off \in fpOffScreen(p) :
                LET life == fpLife - 1
                    respawn == fpMustRespawn(p, off, life)
                    v2 == IF respawn THEN "finite" ELSE v
                    z2 == IF respawn THEN "finite" ELSE fpHue
                IN  /\ fpPos' = IF respawn THEN "finite" ELSE p
                    /\ fpLife' = IF respawn THEN LifeSteps ELSE life
                    /\ \E h1 \in fpAdd(z2, v2) :
                         \E h2 \in fpAdd(h1, a) : fpHue' = fpMod(h2)
                    /\ fpLast' = [ran |-> TRUE, p |-> p, v |-> v, respawned |-> respawn]

\* one frame: the uniforms are set from the audioData prop and the pass is computed
FpTick ==
    /\ fpTicks < MaxFpTicks
    /\ fpTicks' = fpTicks + 1
    /\ \E a \in FloatClasses :
          /\ fpAudio' = a
          /\ FpMain(a)
    /\ UNCHANGED notFp

(***************************************************************************)
(* The sizing of the population: the loops of the App effect and the       *)
(* geometry buffers of Particles                                           *)
(***************************************************************************)

\* the counts handed in run from -MaxSizeCount to MaxSizeCount, the array holds up to
\* MaxSizeCount particles before
MaxSizeCount == 3
SizeCounts == (0 - MaxSizeCount) .. MaxSizeCount

NoAlloc == [ran |-> FALSE]

SizeInit ==
    /\ szCount \in SizeCounts
    /\ szArray \in 0 .. MaxSizeCount
    /\ szLoop = "start"
    /\ szAlloc = NoAlloc

SizeIdle ==
    /\ szCount = MaxSizeCount
    /\ szArray = 0
    /\ szLoop = "start"
    /\ szAlloc = NoAlloc

\* if (particlesRef.current.length === 0) for (i < particleCount) push ... else the loops
SizeStart ==
    /\ szLoop = "start"
    /\ IF szArray = 0
       THEN /\ szArray' = Max(szCount, 0)
            /\ szLoop' = "done"
       ELSE /\ szLoop' = "grow"
            /\ UNCHANGED szArray
    /\ UNCHANGED <<szCount, szAlloc>>
    /\ UNCHANGED notSize

\* while (particlesRef.current.length < particleCount) push(new Particle(...))
SizeGrow ==
    /\ szLoop = "grow"
    /\ IF szArray < szCount
       THEN /\ szArray' = szArray + 1
            /\ UNCHANGED szLoop
       ELSE /\ szLoop' = "shrink"
            /\ UNCHANGED szArray
    /\ UNCHANGED <<szCount, szAlloc>>
    /\ UNCHANGED notSize

\* while (particlesRef.current.length > particleCount) pop(): pop leaves an empty
\* array empty
SizeShrink ==
    /\ szLoop = "shrink"
    /\ IF szArray > szCount
       THEN /\ szArray' = Max(szArray - 1, 0)
            /\ UNCHANGED szLoop
       ELSE /\ szLoop' = "done"
            /\ UNCHANGED szArray
    /\ UNCHANGED <<szCount, szAlloc>>
    /\ UNCHANGED notSize

\* the useMemo of Particles: new Float32Array(particleCount * 3), which throws a
\* RangeError for a negative length
SizeAllocate ==
    /\ ~szAlloc.ran
    /\ szAlloc' = [ran |-> TRUE, length |-> szCount * 3, thrown |-> szCount * 3 < 0]
    /\ UNCHANGED <<szCount, szArray, szLoop>>
    /\ UNCHANGED notSize

(***************************************************************************)
(* useAudioAnalyzer.ts: the transient detector over one triggering frame   *)
(* followed by silent frames                                               *)
(***************************************************************************)

\* the silent frames followed, and the resolution the transient value is kept at: after
\* many ticks the exact value has too long a denominator, so the model carries a lower
\* and an upper bound of it
MaxSilentFrames == 55
FixedScale == 10000000

\* the largest and the smallest multiple of 1 / FixedScale on either side of r
fixedFloor(r) == (r[1] * FixedScale) \div r[2]
fixedCeil(r) == (r[1] * FixedScale + r[2] - 1) \div r[2]

\* a decay step that leaves the value as it is
decayedHighUndamped(v, decay) == v

\* transientValueRef.current *= transientDecay on the bounds
decayedHigh(v, decay) == (v * decay[1] + decay[2] - 1) \div decay[2]
decayedLow(v, decay) == (v * decay[1]) \div decay[2]

\* the raw overall level analyze computes for a frame
frameLevel(dataArray, bins) ==
    overallLevel(bassEnergy(dataArray, bins), midEnergy(dataArray, bins),
                 trebleEnergy(dataArray, bins))

\* the frames that trigger a transient from the all-zero state
TriggerFrames(opt) ==
    { f \in Frames(BinRanges(opt)) :
        transientTrigger(levelIncrease(frameLevel(f, BinRanges(opt)), Zero),
                         frameLevel(f, BinRanges(opt)), opt) }

SilentFrame(bins) == [i \in 0 .. bins.binCount - 1 |-> 0]

NoScenarioTick == [ran |-> FALSE]

ScenarioStart ==
    /\ scFrames = 0
    /\ scPreviousLevel = Zero
    /\ scLow = 0
    /\ scHigh = 0
    /\ scTriggers = 0
    /\ scLast = NoScenarioTick

\* the options with transientDecay 0.92, and a frame that triggers
ScenarioInit ==
    /\ scOptions \in { o \in AnalyzerOptions : o.transientDecay = <<23, 25>> }
    /\ scFirst \in TriggerFrames(scOptions)
    /\ ScenarioStart

ScenarioIdle ==
    /\ scOptions = CHOOSE o \in AnalyzerOptions : o.transientDecay = <<23, 25>>
    /\ scFirst = SilentFrame(BinRanges(scOptions))
    /\ ScenarioStart

\* one tick of analyze, "Transient detection" to "Store previous level": the first on
\* scFirst, the others on silence
ScenarioTick ==
    /\ scFrames < 1 + MaxSilentFrames
    /\ LET bins == BinRanges(scOptions)
           dataArray == IF scFrames = 0 THEN scFirst ELSE SilentFrame(bins)
           overall == frameLevel(dataArray, bins)
           increase == levelIncrease(overall, scPreviousLevel)
           trigger == transientTrigger(increase, overall, scOptions)
           set == RMin(One, RMul(increase, R(2)))
       IN  /\ scLow' = decayedLow(IF trigger THEN fixedFloor(set) ELSE scLow,
                                  scOptions.transientDecay)
           /\ scHigh' = decayedHigh(IF trigger THEN fixedCeil(set) ELSE scHigh,
                                    scOptions.transientDecay)
           /\ scTriggers' = IF trigger THEN scTriggers + 1 ELSE scTriggers
           /\ scPreviousLevel' = overall
           /\ scLast' = [ran |-> TRUE, low |-> scLow, high |-> scHigh, trigger |-> trigger]
    /\ scFrames' = scFrames + 1
    /\ UNCHANGED <<scOptions, scFirst>>
    /\ UNCHANGED notScenario

(***************************************************************************)
(* App.tsx: the noise field the particles of the canvas visualiser read    *)
(***************************************************************************)

MaxFieldFrames == 3

\* the eviction of animate on tables this small: period, limits and what is kept
FieldEvictionPeriod == 2
FieldMemoryLimit == 3
FieldMemoryKeep == 1
FieldGradientsLimit == 6
FieldGradientsKeep == 2

\* unit vectors rand_vect can return
East == [x |-> One, y |-> Zero]
North == [x |-> Zero, y |-> One]
West == [x |-> R(-1), y |-> Zero]
Slanted == [x |-> <<3, 5>>, y |-> <<4, 5>>]

\* what Math.random goes on to deliver, as the vectors rand_vect makes of it
RandomStreams ==
    { <<East, North, West, Slanted, North>>,
      <<Slanted, East, East, North, West>> }

\* the noise coordinates (x * scale, y * scale + time * 0.5) particles are found at
FieldPoints == { <<Q(1, 2), Q(1, 2)>>, <<Q(3, 2), Q(1, 2)>>, <<Q(1, 2), Q(3, 2)>> }

\* an object used as a table: the entries in insertion order
HasKey(table, key) == \E i \in 1 .. Len(table) : table[i].key = key
ValueAt(table, key) == table[CHOOSE i \in 1 .. Len(table) : table[i].key = key].val

\* table[key] = val
WithKey(table, key, val) ==
    IF HasKey(table, key)
    THEN [i \in 1 .. Len(table) |->
             IF table[i].key = key THEN [key |-> key, val |-> val] ELSE table[i]]
    ELSE Append(table, [key |-> key, val |-> val])

\* PerlinNoise.dot_prod_grid on the object n and the generator state rnd
dot_prod_grid(n, rnd, x, y, vx, vy) ==
    LET known == HasKey(n.gradients, <<vx, vy>>)
        g_vect == IF known THEN ValueAt(n.gradients, <<vx, vy>>) ELSE Head(rnd)
        dx == RSub(x, R(vx))
        dy == RSub(y, R(vy))
    IN  [noise |-> IF known THEN n
                   ELSE [n EXCEPT !.gradients = Append(@, [key |-> <<vx, vy>>, val |-> g_vect])],
         random |-> IF known THEN rnd ELSE Tail(rnd) \o <<Head(rnd)>>,
         value |-> RAdd(RMul(dx, g_vect.x), RMul(dy, g_vect.y))]

smootherstep(x) ==
    LET x3 == RMul(x, RMul(x, x))
        x4 == RMul(x3, x)
        x5 == RMul(x4, x)
    IN  RAdd(RSub(RMul(R(6), x5), RMul(R(15), x4)), RMul(R(10), x3))

interp(x, a, b) == RAdd(a, RMul(smootherstep(x), RSub(b, a)))

\* the statements after "const name = e": body on the value of e
Then(e, body(_)) == CHOOSE r \in { body(name) : name \in {e} } : TRUE

\* PerlinNoise.get
get(n, rnd, x, y) ==
    IF HasKey(n.memory, <<x, y>>) /\ ValueAt(n.memory, <<x, y>>) # Zero
    THEN [noise |-> n, random |-> rnd, value |-> ValueAt(n.memory, <<x, y>>)]
    ELSE LET xf == Floor(x)
             yf == Floor(y)
         IN  Then(dot_prod_grid(n, rnd, x, y, xf, yf), LAMBDA tl :
             Then(dot_prod_grid(tl.noise, tl.random, x, y, xf + 1, yf), LAMBDA tr :
             Then(dot_prod_grid(tr.noise, tr.random, x, y, xf, yf + 1), LAMBDA bl :
             Then(dot_prod_grid(bl.noise, bl.random, x, y, xf + 1, yf + 1), LAMBDA br :
             Then(interp(RSub(x, R(xf)), tl.value, tr.value), LAMBDA xt :
             Then(interp(RSub(x, R(xf)), bl.value, br.value), LAMBDA xb :
             Then(interp(RSub(y, R(yf)), xt, xb), LAMBDA v :
                 [noise |-> [br.noise EXCEPT !.memory = WithKey(@, <<x, y>>, v)],
                  random |-> br.random, value |-> v])))))))

\* the two reads of the field in Particle.update, for a particle at noise coordinates pt
FieldReads(n, rnd, pt) ==
    Then(get(n, rnd, pt[1], pt[2]), LAMBDA r1 :
    Then(get(r1.noise, r1.random, RAdd(pt[1], R(100)), pt[2]), LAMBDA r2 :
        [noise |-> r2.noise, random |-> r2.random, n1 |-> r1.value, n2 |-> r2.value]))

\* particlesRef.current.forEach(p => p.update(...)) over two particles, first then second
UpdateInOrder(n, rnd, first, second) ==
    Then(FieldReads(n, rnd, first), LAMBDA a :
    Then(FieldReads(a.noise, a.random, second), LAMBDA b :
        [noise |-> b.noise, random |-> b.random,
         first |-> [n1 |-> a.n1, n2 |-> a.n2], second |-> [n1 |-> b.n1, n2 |-> b.n2]]))

\* what the eviction of animate leaves of a table
EvictedTable(table, limit, keep) ==
    IF Len(table) > limit THEN SubSeq(table, Len(table) - keep + 1, Len(table)) ELSE table

\* the eviction of animate at frame count fc
EvictedNoise(n, fc) ==
    IF fc % FieldEvictionPeriod = 0
    THEN [gradients |-> EvictedTable(n.gradients, FieldGradientsLimit, FieldGradientsKeep),
          memory |-> EvictedTable(n.memory, FieldMemoryLimit, FieldMemoryKeep)]
    ELSE n

\* the value get first returned for each of the keys, once the reads of a frame are added
FirstValues(seen, keys, values) ==
    [k \in DOMAIN seen \cup { keys[i] : i \in 1 .. Len(keys) } |->
        IF k \in DOMAIN seen THEN seen[k]
        ELSE values[CHOOSE i \in 1 .. Len(keys) :
                        keys[i] = k /\ \A j \in 1 .. i - 1 : keys[j] # k]]

FieldInit ==
    /\ perlin = [gradients |-> <<>>, memory |-> <<>>]
    /\ mathRandom \in RandomStreams
    /\ fieldFrameCount = 0
    /\ firstValue = <<>>
    /\ lastUpdates = [ran |-> FALSE]

FieldIdle ==
    /\ perlin = [gradients |-> <<>>, memory |-> <<>>]
    /\ mathRandom = <<East>>
    /\ fieldFrameCount = 0
    /\ firstValue = <<>>
    /\ lastUpdates = [ran |-> FALSE]

\* one playing frame of animate over two particles at the noise coordinates p and q
FieldFrame ==
    /\ fieldFrameCount < MaxFieldFrames
    /\ \E p \in FieldPoints, q \in FieldPoints :
         \E fc \in {fieldFrameCount + 1} :
         \E n0 \in {EvictedNoise(perlin, fc)} :
         \E fwd \in {UpdateInOrder(n0, mathRandom, p, q)} :
         \E rev \in {UpdateInOrder(n0, mathRandom, q, p)} :
         \E keys \in {<<p, <<RAdd(p[1], R(100)), p[2]>>, q, <<RAdd(q[1], R(100)), q[2]>>>>} :
         \E values \in {<<fwd.first.n1, fwd.first.n2, fwd.second.n1, fwd.second.n2>>} :
         \E firsts \in {FirstValues(firstValue, keys, values)} :
             /\ fieldFrameCount' = fc
             /\ perlin' = fwd.noise
             /\ mathRandom' = fwd.random
             /\ firstValue' = firsts
             /\ lastUpdates' = [ran |-> TRUE, p |-> p, q |-> q,
                                evicted |-> n0 # perlin,
                                forward |-> <<fwd.first, fwd.second>>,
                                reverse |-> <<rev.second, rev.first>>,
                                values |-> values,
                                firsts |-> [i \in 1 .. 4 |-> firsts[keys[i]]]]
    /\ UNCHANGED notField

(***************************************************************************)
(* Specifications                                                          *)
(***************************************************************************)
\* the hook before it is mounted with playback, while another machine runs
HookIdle ==
    /\ isPlaying = FALSE
    /\ analyserNode = FALSE
    /\ audioContext = FALSE
    /\ options = [fftSize |-> 32, sampleRate |-> 44100, lerpFactor |-> <<3, 20>>,
                  transientThreshold |-> <<3, 10>>, transientDecay |-> <<23, 25>>]
    /\ audioData = ZeroData
    /\ smoothedRef = ZeroData
    /\ previousLevelRef = Zero
    /\ transientValueRef = Zero
    /\ frameIdRef = 0
    /\ effectDeps = <<>>
    /\ effectCleanup = FALSE
    /\ rafQueue = {}
    /\ rafNext = 1
    /\ hookTicks = 0
    /\ hookRenders = 0
    /\ hookEvent = "mount"
    /\ lastTick = [ran |-> FALSE, previousLevel |-> Zero, previousTransient |-> Zero,
                   previousSmoothed |-> ZeroData]

\* the analysis hook (MaxTicks, MaxRenders)
Init == HookInit /\ LevelsInit /\ AppInit /\ GpuIdle /\ ColourIdle /\ RangeIdle /\ NoiseIdle /\ FpInit /\ SizeIdle /\ ScenarioIdle /\ FieldIdle
Next == SetProps \/ RunEffect \/ Analyze
Spec == Init /\ [][Next]_vars

\* the band analysis applied to frames
InitLevels == HookIdle /\ LevelsInit /\ AppInit /\ GpuIdle /\ ColourIdle /\ RangeIdle /\ NoiseIdle /\ FpInit /\ SizeIdle /\ ScenarioIdle /\ FieldIdle
NextLevels == HookBands \/ AppBands
SpecLevels == InitLevels /\ [][NextLevels]_vars

\* the canvas visualiser
InitApp == HookIdle /\ LevelsInit /\ AppInit /\ GpuIdle /\ ColourIdle /\ RangeIdle /\ NoiseIdle /\ FpInit /\ SizeIdle /\ ScenarioIdle /\ FieldIdle
NextApp ==
    \/ SetParticleCount
    \/ SetColorScheme
    \/ SetIsPlaying
    \/ SyncIsPlayingRef
    \/ ConnectAnalyser
    \/ DisconnectSource
    \/ AppRunEffect
    \/ Animate
SpecApp == InitApp /\ [][NextApp]_vars

\* the GPU simulation (MaxGpuTicks, TEXTURE_SIZE)
InitGpu == HookIdle /\ LevelsInit /\ AppInit /\ GpuInit /\ ColourIdle /\ RangeIdle /\ NoiseIdle /\ FpInit /\ SizeIdle /\ ScenarioIdle /\ FieldIdle
NextGpu == GpuTick
SpecGpu == InitGpu /\ [][NextGpu]_vars

\* the colour mapping applied to its inputs
InitColour == HookIdle /\ LevelsInit /\ AppInit /\ GpuIdle /\ ColourInit /\ RangeIdle /\ NoiseIdle /\ FpInit /\ SizeIdle /\ ScenarioIdle /\ FieldIdle
NextColour == MapColour
SpecColour == InitColour /\ [][NextColour]_vars

\* the bin ranges applied to their inputs (MaxRangeBins)
InitRanges == HookIdle /\ LevelsInit /\ AppInit /\ GpuIdle /\ ColourIdle /\ RangeInit /\ NoiseIdle /\ FpInit /\ SizeIdle /\ ScenarioIdle /\ FieldIdle
NextRanges == BandRanges
SpecRanges == InitRanges /\ [][NextRanges]_vars

\* the noise tables over the frames of one effect run (MaxNoiseFrames)
InitNoise == HookIdle /\ LevelsInit /\ AppInit /\ GpuIdle /\ ColourIdle /\ RangeIdle /\ NoiseInit /\ FpInit /\ SizeIdle /\ ScenarioIdle /\ FieldIdle
NextNoise == NoiseFrame
SpecNoise == InitNoise /\ [][NextNoise]_vars

\* the position shader on non-finite values (MaxFpTicks, LifeSteps)
InitFp == HookIdle /\ LevelsInit /\ AppInit /\ GpuIdle /\ ColourIdle /\ RangeIdle /\ NoiseIdle /\ FpInit /\ SizeIdle /\ ScenarioIdle /\ FieldIdle
NextFp == FpTick
SpecFp == InitFp /\ [][NextFp]_vars

\* the sizing of the population (MaxSizeCount)
InitSize == HookIdle /\ LevelsInit /\ AppInit /\ GpuIdle /\ ColourIdle /\ RangeIdle /\ NoiseIdle /\ FpInit /\ SizeInit /\ ScenarioIdle /\ FieldIdle
NextSize == SizeStart \/ SizeGrow \/ SizeShrink \/ SizeAllocate
SpecSize == InitSize /\ [][NextSize]_vars

\* the transient detector over one triggering frame and silence (MaxSilentFrames)
InitScenario == HookIdle /\ LevelsInit /\ AppInit /\ GpuIdle /\ ColourIdle /\ RangeIdle /\ NoiseIdle /\ FpInit /\ SizeIdle /\ ScenarioInit /\ FieldIdle
NextScenario == ScenarioTick
SpecScenario == InitScenario /\ [][NextScenario]_vars

InitField == HookIdle /\ LevelsInit /\ AppInit /\ GpuIdle /\ ColourIdle /\ RangeIdle /\ NoiseIdle /\ FpInit /\ SizeIdle /\ ScenarioIdle /\ FieldInit

NextField == FieldFrame

SpecField == InitField /\ [][NextField]_vars

(***************************************************************************)
(* Properties of useAudioAnalyzer                                          *)
(***************************************************************************)
AllZero ==
    /\ audioData = ZeroData
    /\ smoothedRef = ZeroData
    /\ previousLevelRef = Zero
    /\ transientValueRef = Zero

\* C2: whenever the analysis effect has just run with isPlaying false, or without an
\* analyser or an audio context, the published audioData and the smoothed state are
\* all exactly 0, and so are previous_level and transient_value.
Thm_C2_ResetToZero ==
    (hookEvent \in {"reset", "start"} /\ (~isPlaying \/ ~analyserNode \/ ~audioContext))
        => AllZero

\* the effect has reset a state that analysis ticks had made non-zero
Wit_C2_ResetAfterAnalysis ==
    /\ hookEvent = "reset"
    /\ ~isPlaying
    /\ lastTick.previousSmoothed.level # Zero
    /\ lastTick.previousSmoothed.transient # Zero
    /\ lastTick.previousLevel # Zero
    /\ lastTick.previousTransient # Zero

\* C4 as claimed: after every analysis tick each smoothed field lies in [0,1].
Claim_C4_SmoothedInUnit ==
    /\ InUnit(smoothedRef.level) /\ InUnit(audioData.level)
    /\ InUnit(smoothedRef.bass) /\ InUnit(audioData.bass)
    /\ InUnit(smoothedRef.mid) /\ InUnit(audioData.mid)
    /\ InUnit(smoothedRef.treble) /\ InUnit(audioData.treble)
    /\ InUnit(smoothedRef.transient) /\ InUnit(audioData.transient)

\* the rise of the last tick, from the levels it found and left
Rise == RMax(RSub(lastTick.overallLevel, lastTick.previousLevel), Zero)
Triggered ==
    /\ hookEvent = "analyze"
    /\ RLt(options.transientThreshold, Rise)
    /\ RLt(<<1, 10>>, lastTick.overallLevel)

\* C5: on a tick whose rise exceeds transientThreshold with overall_level > 0.1,
\* transient_value at the end of the tick is min(1, 2 * rise) * transientDecay whatever
\* it was before; a jump 0.05 -> 0.5 with threshold 0.3 and decay 0.92 gives 0.828.
Thm_C5_TransientOverwrite ==
    /\ Triggered =>
          /\ previousLevelRef = lastTick.overallLevel
          /\ transientValueRef = RMul(RMin(One, RMul(R(2), Rise)), options.transientDecay)
    /\ \A prior \in {Zero, <<1, 2>>, One} :
          transientValue(prior, levelIncrease(<<1, 2>>, <<1, 20>>), <<1, 2>>,
                         [transientThreshold |-> <<3, 10>>, transientDecay |-> <<23, 25>>])
            = <<207, 250>>

\* a trigger on a tick that found a non-zero transient_value
Wit_C5_TriggerOverPrior ==
    /\ Triggered
    /\ lastTick.previousTransient # Zero
    /\ RLt(Rise, <<1, 2>>)

Thm_C17_NoTickAfterStop ==
    (effectDeps # <<>> /\ ~effectDeps[1]) =>
        /\ rafQueue = {}
        /\ smoothedRef = ZeroData
        /\ previousLevelRef = Zero
        /\ transientValueRef = Zero

\* the loop ran all its ticks, playback was stopped and reset, and a prop changed later
Wit_C17_StoppedAfterTicks ==
    /\ effectDeps # <<>>
    /\ ~effectDeps[1]
    /\ hookTicks = MaxTicks
    /\ hookEvent = "props"

\* C19: every tick multiplies the transient value by transientDecay exactly once, after
\* the trigger assignment if there is one; a tick without a trigger leaves the prior
\* value times transientDecay.
Thm_C19_DecayOncePerTick ==
    hookEvent = "analyze" =>
        transientValueRef =
            RMul(IF Triggered THEN RMin(One, RMul(R(2), Rise)) ELSE lastTick.previousTransient,
                 options.transientDecay)

\* a tick without a trigger that found a pulse to decay
Wit_C19_DecayWithoutTrigger ==
    /\ hookEvent = "analyze"
    /\ ~Triggered
    /\ lastTick.previousTransient # Zero
    /\ options.transientDecay = <<23, 25>>
    /\ transientValueRef # lastTick.previousTransient

\* C20: every tick ends with previousLevel equal to its raw overall level, so the next
\* tick takes its delta from the raw overall level of the tick before it.
Thm_C20_PreviousLevelIsRaw ==
    [][hookEvent' = "analyze" =>
          /\ previousLevelRef' = lastTick'.overallLevel
          /\ hookEvent = "analyze" => lastTick'.previousLevel = lastTick.overallLevel]_vars

\* the second of two ticks with different raw levels, its smoothed level different too
Wit_C20_SecondTickNewLevel ==
    /\ hookEvent = "analyze"
    /\ lastTick.previousLevel # Zero
    /\ lastTick.previousLevel # lastTick.overallLevel
    /\ smoothedRef.level # lastTick.overallLevel
    /\ previousLevelRef = lastTick.overallLevel

(***************************************************************************)
(* Properties of the band analysis                                         *)
(***************************************************************************)
\* C3 as claimed: for every frame of byte magnitudes every band energy and the
\* overall level of both analysers lies in [0,1].
Claim_C3_BandsInUnit ==
    /\ hookBands.ran =>
          /\ InUnit(hookBands.bass) /\ InUnit(hookBands.mid)
          /\ InUnit(hookBands.treble) /\ InUnit(hookBands.overall)
    /\ appBands.ran =>
          LET f == appBands.frequencyData
          IN  /\ InUnit(f.bass) /\ InUnit(f.lowMid) /\ InUnit(f.mid)
              /\ InUnit(f.highMid) /\ InUnit(f.treble) /\ InUnit(f.overall)

\* C10: the overall level is 0.3*bass + 0.4*mid + 0.3*treble in useAudioAnalyzer and
\* 0.3*bass + 0.2*lowMid + 0.25*mid + 0.15*highMid + 0.1*treble in App.tsx: weights that
\* are not negative and sum to exactly 1, applied to the band energies of the same tick.
Thm_C10_OverallIsWeightedSum ==
    LET w3 == <<(<<3, 10>>), (<<2, 5>>), (<<3, 10>>)>>
        w5 == <<(<<3, 10>>), (<<1, 5>>), (<<1, 4>>), (<<3, 20>>), (<<1, 10>>)>>
    IN  /\ \A i \in 1 .. 3 : RLe(Zero, w3[i])
        /\ \A i \in 1 .. 5 : RLe(Zero, w5[i])
        /\ RAdd(RAdd(w3[1], w3[2]), w3[3]) = One
        /\ RAdd(RAdd(RAdd(RAdd(w5[1], w5[2]), w5[3]), w5[4]), w5[5]) = One
        /\ hookBands.ran =>
              hookBands.overall =
                 RAdd(RAdd(RMul(w3[1], hookBands.bass), RMul(w3[2], hookBands.mid)),
                      RMul(w3[3], hookBands.treble))
        /\ appBands.ran =>
              LET f == appBands.frequencyData
              IN  f.overall =
                     RAdd(RAdd(RAdd(RAdd(RMul(w5[1], f.bass), RMul(w5[2], f.lowMid)),
                                    RMul(w5[3], f.mid)), RMul(w5[4], f.highMid)),
                          RMul(w5[5], f.treble))

\* both analysers have analysed a frame whose bands differ
Wit_C10_MixedBands ==
    /\ hookBands.ran /\ appBands.ran
    /\ hookBands.bass # hookBands.mid
    /\ hookBands.overall # Zero
    /\ appBands.frequencyData.bass # appBands.frequencyData.lowMid
    /\ appBands.frequencyData.highMid # appBands.frequencyData.treble
    /\ appBands.frequencyData.overall # Zero

Claim_C21_DivisorIsBinsSummed ==
    rangeOut.ran =>
        /\ rangeOut.hook.bassBinCount = rangeOut.hook.bass
        /\ rangeOut.hook.midBinCount = rangeOut.hook.mid
        /\ rangeOut.hook.trebleBinCount = rangeOut.hook.treble

(***************************************************************************)
(* Properties of the canvas visualiser                                     *)
(***************************************************************************)
\* C7: in every frame that updates and draws particles the array length equals the
\* particleCount its animate was created with, and once the main effect has run for the
\* configured particleCount the array has exactly that many particles: it is never
\* left at another size.
Thm_C7_ArrayLengthIsParticleCount ==
    /\ (appEvent = "frame" /\ lastFrame.drawn) =>
          Len(particlesRef) = closures[lastFrame.epoch].particleCount
    /\ appEffectDeps = AppDeps => Len(particlesRef) = particleCount

\* a drawn frame after the count went up and then down below where it started
Wit_C7_DrawnAfterShrink ==
    /\ appEvent = "frame"
    /\ lastFrame.drawn
    /\ appEffectDeps = AppDeps
    /\ appEpoch >= 3
    /\ particleCount < InitialParticles
    /\ Len(particlesRef) = particleCount

\* C11: a frame drawn while no source feeds the analyser uses band energies and an
\* overall level of 0.
Claim_C11_NoSourceZeroBands ==
    (appEvent = "frame" /\ lastFrame.drawn /\ ~lastFrame.source) =>
        /\ closures[lastFrame.epoch].frequencyData = ZeroBands
        /\ closures[lastFrame.epoch].audioLevel = Zero

Thm_C26_PausedFrameChangesNothing ==
    [][(appFrames' = appFrames + 1 /\ ~isPlayingRef) =>
          /\ closures' = closures
          /\ particlesRef' = particlesRef
          /\ analyserData' = analyserData
          /\ Cardinality(appRafQueue') = Cardinality(appRafQueue)
          /\ \E cb \in appRafQueue' : cb.id = animationRef' /\ cb \notin appRafQueue]_vars

\* a frame has run while paused, after a played frame had moved the simulation on
Wit_C26_PausedAfterPlayed ==
    /\ appEvent = "frame"
    /\ ~isPlayingRef
    /\ ~lastFrame.drawn
    /\ particlesRef # <<>>
    /\ \E e \in DOMAIN closures : closures[e].frameCount > 0

\* C27: over every sequence of effect runs, cleanups and frames at most one animate
\* callback is pending, it is the one animationRef names and belongs to the latest effect
\* run, and right after an effect run exactly one is pending
Thm_C27_OneLoop ==
    /\ Cardinality(appRafQueue) <= 1
    /\ \A cb \in appRafQueue : cb.id = animationRef /\ cb.epoch = appEpoch
    /\ appEvent = "effect" => Cardinality(appRafQueue) = 1

\* the effect has run again after its first loop had run frames
Wit_C27_RestartedLoop ==
    /\ appEvent = "effect"
    /\ appEpoch >= 2
    /\ appFrames >= 1
    /\ Cardinality(appRafQueue) = 1

\* C28: every particle of the array, constructed or updated, lies within the canvas,
\* 0 <= x <= canvasWidth and 0 <= y <= canvasHeight, and one an update has moved across
\* an edge is on the opposite edge after that update
Thm_C28_PositionWithinCanvas ==
    \A i \in 1 .. Len(particlesRef) :
        /\ RLe(Zero, particlesRef[i].x) /\ RLe(particlesRef[i].x, R(canvasWidth))
        /\ RLe(Zero, particlesRef[i].y) /\ RLe(particlesRef[i].y, R(canvasHeight))

\* a frame has moved a particle up across the top edge and put it on the bottom edge
Wit_C28_WrappedToBottom ==
    /\ lastFrame.drawn
    /\ \E i \in 1 .. Len(particlesRef) :
          /\ RLt(particlesRef[i].vy, Zero)
          /\ particlesRef[i].y = R(canvasHeight)

\* C29: over every sequence of frames and effect re-runs, two frames that set
\* beatIntensity to 1 are more than 200 ms apart
Claim_C29_BeatsApart ==
    beatLog.gap = 0 \/ beatLog.gap > 200

(***************************************************************************)
(* Properties of the GPU simulation                                        *)
(***************************************************************************)
InLife(a) == RLt(Zero, a) /\ RLe(a, One)

\* C1: the life a tick writes satisfies 0 < life <= 1 after any number of ticks from
\* the initial life of 1; a particle whose life reaches <= 0 during a tick is respawned
\* with life 1 in that tick, so the life read back for colouring is in (0,1] as well.
Thm_C1_LifeInUnit ==
    /\ InLife(texturePosition.w)
    /\ (lastShade.ran /\ RLe(lastShade.decayed, Zero)) =>
          (lastShade.respawned /\ texturePosition.w = One)
    /\ geometry.read => InLife(geometry.life)

\* a particle that stayed on screen has used up its life and was respawned
Wit_C1_RespawnAtEndOfLife ==
    /\ lastShade.ran
    /\ RLe(lastShade.decayed, Zero)
    /\ ~lastShade.offScreen
    /\ texturePosition.w = One
    /\ geometry.read
    /\ geometry.life = One

\* C8: if the position after integration lies outside +/-0.6 * resolution on either
\* axis, the position written at the end of that tick lies within those bounds.
Thm_C8_RespawnWithinBounds ==
    (lastShade.ran /\ lastShade.offScreen) =>
        /\ lastShade.respawned
        /\ ~offScreen(texturePosition, [x |-> R(gpuSize.width), y |-> R(gpuSize.height)])

\* a particle with life left was carried off the screen and respawned away from where
\* the integration put it
Wit_C8_CarriedOffScreen ==
    /\ lastShade.ran
    /\ lastShade.offScreen
    /\ RLt(Zero, lastShade.decayed)
    /\ texturePosition.x # lastShade.integrated.x
    /\ texturePosition.y # lastShade.integrated.y

\* C22: a compute pass takes 0.0005 * (1 + audioLevel) off the life of the particle, so
\* that a louder frame takes more than a quiet one.
Claim_C22_LouderDecaysFaster ==
    [][computeRuns =>
          lastShade'.decayed =
              RSub(texturePosition.w, RMul(<<5, 10000>>, RAdd(One, gpuAudio.level)))]_vars

\* C23: the velocity a compute pass arrives at is the velocity the velocity texture
\* holds after it, which the next pass reads.
Claim_C23_VelocityPersisted ==
    lastShade.ran =>
        /\ textureVelocity.x = lastShade.v.x
        /\ textureVelocity.y = lastShade.v.y

(***************************************************************************)
(* Properties of the colour mapping                                        *)
(***************************************************************************)
\* C9: for every hue in [0,360), life in [0,1], audio signals in [0,1] and each of the
\* four palettes, the colour the readback loop writes has red, green and blue in [0,1]
\* and alpha in [0,1].
Thm_C9_ColourInUnit ==
    colourOut.ran =>
        /\ InUnit(colourOut.color.r)
        /\ InUnit(colourOut.color.g)
        /\ InUnit(colourOut.color.b)
        /\ InUnit(colourOut.alpha)

\* the fire palette handed a negative hue to hslToRgb for a particle at full life
Wit_C9_NegativeHueFullLife ==
    /\ colourOut.ran
    /\ colourIn.scheme = "fire"
    /\ RLt(colourOut.h, Zero)
    /\ colourIn.life = One
    /\ colourOut.alpha = One
    /\ colourOut.color.r # colourOut.color.b

\* C14: the hue the readback loop hands to the HSL conversion lies in [0,360) for
\* every palette and every input.
Claim_C14_HueInRange ==
    colourOut.ran => RLe(Zero, colourOut.h) /\ RLt(colourOut.h, R(360))

(***************************************************************************)
(* Properties of the position shader on non-finite values                  *)
(***************************************************************************)
\* C15: a pass in which the position or velocity of the particle became NaN or infinite
\* respawns it in that pass, so the texel it writes holds a finite position and hue and
\* full life.
Claim_C15_NonFiniteRespawned ==
    /\ fpPos = "finite"
    /\ fpHue = "finite"
    /\ (fpLast.ran /\ (fpLast.p # "finite" \/ fpLast.v # "finite")) =>
          fpLast.respawned /\ fpLife = LifeSteps

(***************************************************************************)
(* Properties of the sizing of the population                              *)
(***************************************************************************)
\* C16: whatever particleCount is handed in, negative ones included, no buffer of
\* negative length is asked for and the shrink loop is never left popping an empty
\* array with its condition still true.
Claim_C16_NegativeCountHandled ==
    /\ szAlloc.ran => szAlloc.length >= 0
    /\ ~(szLoop = "shrink" /\ szArray = 0 /\ szArray > szCount)

(***************************************************************************)
(* Properties of the transient detector over a trigger and silence         *)
(***************************************************************************)
\* C18 as stated: one triggering frame and 50 silent frames give exactly one trigger, a
\* transient value that falls on every silent tick, and a value below 0.01 after the
\* 50th silent frame.
Claim_C18_DecayedByTick50 ==
    /\ scFrames >= 1 => scTriggers = 1
    /\ (scLast.ran /\ ~scLast.trigger) => scHigh < scLast.low
    /\ scFrames = 1 + 50 => scLow * 100 < FixedScale

\* C18 amended: exactly one trigger, a transient value that falls on every silent tick,
\* a value below 0.015 after the 50th silent frame and below 0.01 after the 55th.
Thm_C18_DecayedByTick55 ==
    /\ scFrames >= 1 => scTriggers = 1
    /\ (scLast.ran /\ ~scLast.trigger) => scHigh < scLast.low
    /\ scFrames >= 1 + 50 => scHigh * 200 < 3 * FixedScale
    /\ scFrames >= 1 + 55 => scHigh * 100 < FixedScale

\* a trigger clamped to 1 has decayed through 50 silent frames and is still above 0.01
Wit_C18_FullTriggerAfter50 ==
    /\ scFrames = 1 + 50
    /\ scTriggers = 1
    /\ scLow * 100 > FixedScale
    /\ RLe(<<1, 2>>, frameLevel(scFirst, BinRanges(scOptions)))


(***************************************************************************)
(* Properties of the noise field                                           *)
(***************************************************************************)

\* C24: the order in which the particles of one frame are updated does not matter: each
\* particle reads the same noise values whether it is updated before or after the other
Claim_C24_UpdateOrderIrrelevant ==
    lastUpdates.ran => lastUpdates.forward = lastUpdates.reverse

\* C25: get returns, for coordinates it was called with before, the value it returned
\* the first time, whatever frames and evictions lie in between
Claim_C25_GetIsAFunction ==
    lastUpdates.ran =>
        \A i \in 1 .. 4 : lastUpdates.values[i] = lastUpdates.firsts[i]

====
